---- MODULE Spec2Model ----
(***************************************************************************)
(* Monthly sales analyzer (main.py, dashboard.py) and the stock checks of  *)
(* the inventory tools (inventory.py, reports.py).                         *)
(*                                                                         *)
(* A parsed report is [month, year, data]; data is the sequence of the    *)
(* rows of the report's table, [Name, Category, Sold, NetSales].           *)
(* Numbers that the code computes in floating point are kept exact here:   *)
(* a quotient n/d is the record [kind |-> "num", num |-> n, den |-> d],   *)
(* and the IEEE results of a division by zero are the kinds "inf" and      *)
(* "nan".                                                                  *)
(***************************************************************************)
EXTENDS Integers, Sequences, FiniteSets, TLC

VARIABLES reports, products, categories, menu, op, out

vars == <<reports, products, categories, menu, op, out>>

(***************************************************************************)
(* Bounds of the model.                                                    *)
(***************************************************************************)
MaxReports == 2
MaxMerge == 3
MaxQuantity == 150
MaxPageReports == 2
MaxTopN == 6
MaxMinUnits == 2
MaxMinStock == 100
MaxFiles == 3
MaxCategories == 2
MaxProducts == 2
MaxStockRows == 2
MaxClockYears == 2

(***************************************************************************)
(* Month tokens.  Months is the canonical order of the twelve tokens a     *)
(* PeriodKey carries; MonthIndex is the position of a token in it.         *)
(***************************************************************************)
Months ==
  <<"Jan", "Feb", "Mar", "Apr", "May", "Jun",
    "Jul", "Aug", "Sep", "Oct", "Nov", "Dec">>

MonthTokens == {Months[i] : i \in 1..12}

MonthIndex(tok) == CHOOSE i \in 1..12 : Months[i] = tok

Years == {2023, 2024}

\* the characters of the month tokens: for each month the 3-letter and the
\* full name, capitalised, in lower case and (3-letter) in upper case, and
\* two tokens that are no month name
TokenChars ==
  [Jan |-> <<74, 97, 110>>,
   jan |-> <<106, 97, 110>>,
   JAN |-> <<74, 65, 78>>,
   January |-> <<74, 97, 110, 117, 97, 114, 121>>,
   january |-> <<106, 97, 110, 117, 97, 114, 121>>,
   Feb |-> <<70, 101, 98>>,
   feb |-> <<102, 101, 98>>,
   FEB |-> <<70, 69, 66>>,
   February |-> <<70, 101, 98, 114, 117, 97, 114, 121>>,
   february |-> <<102, 101, 98, 114, 117, 97, 114, 121>>,
   Mar |-> <<77, 97, 114>>,
   mar |-> <<109, 97, 114>>,
   MAR |-> <<77, 65, 82>>,
   March |-> <<77, 97, 114, 99, 104>>,
   march |-> <<109, 97, 114, 99, 104>>,
   Apr |-> <<65, 112, 114>>,
   apr |-> <<97, 112, 114>>,
   APR |-> <<65, 80, 82>>,
   April |-> <<65, 112, 114, 105, 108>>,
   april |-> <<97, 112, 114, 105, 108>>,
   May |-> <<77, 97, 121>>,
   may |-> <<109, 97, 121>>,
   MAY |-> <<77, 65, 89>>,
   Jun |-> <<74, 117, 110>>,
   jun |-> <<106, 117, 110>>,
   JUN |-> <<74, 85, 78>>,
   June |-> <<74, 117, 110, 101>>,
   june |-> <<106, 117, 110, 101>>,
   Jul |-> <<74, 117, 108>>,
   jul |-> <<106, 117, 108>>,
   JUL |-> <<74, 85, 76>>,
   July |-> <<74, 117, 108, 121>>,
   july |-> <<106, 117, 108, 121>>,
   Aug |-> <<65, 117, 103>>,
   aug |-> <<97, 117, 103>>,
   AUG |-> <<65, 85, 71>>,
   August |-> <<65, 117, 103, 117, 115, 116>>,
   august |-> <<97, 117, 103, 117, 115, 116>>,
   Sep |-> <<83, 101, 112>>,
   sep |-> <<115, 101, 112>>,
   SEP |-> <<83, 69, 80>>,
   September |-> <<83, 101, 112, 116, 101, 109, 98, 101, 114>>,
   september |-> <<115, 101, 112, 116, 101, 109, 98, 101, 114>>,
   Oct |-> <<79, 99, 116>>,
   oct |-> <<111, 99, 116>>,
   OCT |-> <<79, 67, 84>>,
   October |-> <<79, 99, 116, 111, 98, 101, 114>>,
   october |-> <<111, 99, 116, 111, 98, 101, 114>>,
   Nov |-> <<78, 111, 118>>,
   nov |-> <<110, 111, 118>>,
   NOV |-> <<78, 79, 86>>,
   November |-> <<78, 111, 118, 101, 109, 98, 101, 114>>,
   november |-> <<110, 111, 118, 101, 109, 98, 101, 114>>,
   Dec |-> <<68, 101, 99>>,
   dec |-> <<100, 101, 99>>,
   DEC |-> <<68, 69, 67>>,
   December |-> <<68, 101, 99, 101, 109, 98, 101, 114>>,
   december |-> <<100, 101, 99, 101, 109, 98, 101, 114>>,
   Foo |-> <<70, 111, 111>>,
   Junk |-> <<74, 117, 110, 107>>]

\* month[:3]: the token made of the first three characters of a token
Prefix3(tok) ==
  LET chars == TokenChars[tok]
      first == SubSeq(chars, 1, IF Len(chars) < 3 THEN Len(chars) ELSE 3)
  IN CHOOSE t \in DOMAIN TokenChars : TokenChars[t] = first

(***************************************************************************)
(* Strings that the code compares are sequences of character codes.        *)
(***************************************************************************)
Dash == <<45>>

Digit(d) == 48 + d

RECURSIVE IntStr(_)
IntStr(n) == IF n < 10 THEN <<Digit(n)>> ELSE IntStr(n \div 10) \o <<Digit(n % 10)>>

\* '01' .. '12', '00'
TwoDigits(n) == <<Digit(n \div 10), Digit(n % 10)>>

\* Python's order on tuples of numbers and on strings: lexicographic
RECURSIVE KeyLess(_, _)
KeyLess(a, b) ==
  IF b = <<>> THEN FALSE
  ELSE IF a = <<>> THEN TRUE
  ELSE IF Head(a) < Head(b) THEN TRUE
  ELSE IF Head(a) > Head(b) THEN FALSE
  ELSE KeyLess(Tail(a), Tail(b))

(***************************************************************************)
(* sorted(xs, key=...): Python's sort is stable.  The elements are given   *)
(* as [key, val] pairs.                                                    *)
(***************************************************************************)
RECURSIVE Insert(_, _)
Insert(s, x) ==
  IF s = <<>> THEN <<x>>
  ELSE IF KeyLess(x.key, Head(s).key) THEN <<x>> \o s
  ELSE <<Head(s)>> \o Insert(Tail(s), x)

RECURSIVE StableSort(_)
StableSort(s) ==
  IF s = <<>> THEN <<>>
  ELSE Insert(StableSort(SubSeq(s, 1, Len(s) - 1)), s[Len(s)])

Keyed(xs, keys) == [i \in 1..Len(xs) |-> [key |-> keys[i], val |-> xs[i]]]

Vals(ps) == [i \in 1..Len(ps) |-> ps[i].val]

\* keys[i] is the key of xs[i]
sorted(xs, keys) == Vals(StableSort(Keyed(xs, keys)))

SeqsUpTo(S, n) == UNION {[1..k -> S] : k \in 0..n}

RECURSIVE SumSeq(_)
SumSeq(s) == IF s = <<>> THEN 0 ELSE Head(s) + SumSeq(Tail(s))

Range(s) == {s[i] : i \in 1..Len(s)}

(***************************************************************************)
(* The reports of a run.  Every command and the dashboard call              *)
(* parse_report for each file and keep the result if it is truthy.         *)
(***************************************************************************)
None == [parsed |-> FALSE]

\* a loop that stops at the first file that cannot be parsed
RECURSIVE parsed_until_failure(_)
parsed_until_failure(files) ==
  IF files = <<>> \/ Head(files) = None THEN <<>>
  ELSE <<Head(files)>> \o parsed_until_failure(Tail(files))

\* for report_file in reports: report = parse_report(report_file);
\* if report: parsed_reports.append(report)
parsed_reports_of(files) == SelectSeq(files, LAMBDA report : report # None)

(***************************************************************************)
(* main.py, the 'monthly' command: the order of the reports.               *)
(***************************************************************************)
month_order_main ==
  [Jan |-> 1, Feb |-> 2, Mar |-> 3, Apr |-> 4, May |-> 5, Jun |-> 6,
   Jul |-> 7, Aug |-> 8, Sep |-> 9, Oct |-> 10, Nov |-> 11, Dec |-> 12]

\* a key that puts the month before the year
get_sort_key_month_first(report) ==
  LET month_num == IF Prefix3(report.month) \in DOMAIN month_order_main
                   THEN month_order_main[Prefix3(report.month)] ELSE 0
  IN <<month_num, report.year>>

get_sort_key(report) ==
  LET month == report.month
      year == report.year
      month_num == IF Prefix3(month) \in DOMAIN month_order_main
                   THEN month_order_main[Prefix3(month)] ELSE 0
  IN <<year, month_num>>

sorted_reports(parsed_reports) ==
  sorted(parsed_reports,
         [i \in 1..Len(parsed_reports) |-> get_sort_key(parsed_reports[i])])

(***************************************************************************)
(* dashboard.py: get_reports, get_combined_data, get_month_year_key and    *)
(* the list of months of the sidebar.                                      *)
(***************************************************************************)
month_order_reports ==
  [Jan |-> 1, Feb |-> 2, Mar |-> 3, Apr |-> 4, May |-> 5, Jun |-> 6,
   Jul |-> 7, Aug |-> 8, Sep |-> 9, Oct |-> 10, Nov |-> 11, Dec |-> 12]

get_reports_key(x) ==
  <<x.year, IF x.month \in DOMAIN month_order_reports
            THEN month_order_reports[x.month] ELSE 0>>

get_reports(parsed) ==
  sorted(parsed, [i \in 1..Len(parsed) |-> get_reports_key(parsed[i])])

\* a filter that would also drop 'total' and 'Total'
NotTotalAnyCase(row) == row.Category \notin {"TOTAL", "total", "Total"}

\* df[df['Category Name'] != 'TOTAL']
NotTotal(row) == row.Category # "TOTAL"

\* a path that does not filter
KeepTotal(df) == df

FilterTotal(df) == SelectSeq(df, NotTotal)

(***************************************************************************)
(* Data tables are Python objects.  A frame follows one report through a   *)
(* handler: data is the table held by report['data'], df the table the     *)
(* handler's local name is bound to, and same says whether the two names   *)
(* are bound to one object, so that a change made through df is a change   *)
(* of report['data'].                                                      *)
(***************************************************************************)
\* df = report['data']
bind(report) == [data |-> report.data, df |-> report.data, same |-> TRUE]

\* df.copy(): a new object with the same rows
copy(f) == [data |-> f.data, df |-> f.df, same |-> FALSE]

\* a filter that drops the other rows of the object itself
drop_in_place(f, rows) ==
  [data |-> IF f.same THEN rows ELSE f.data, df |-> rows, same |-> f.same]

\* df[mask]: a new object that holds the selected rows
boolean_index(f, rows) == [data |-> f.data, df |-> rows, same |-> FALSE]

\* df[column] = value: the object df is bound to gets the column
setitem(f, rows) ==
  [data |-> IF f.same THEN rows ELSE f.data, df |-> rows, same |-> f.same]

\* the reports of the run after the handler went through them
after(files, frames) ==
  [i \in 1..Len(files) |->
     IF files[i] = None THEN None
     ELSE [files[i] EXCEPT !.data = frames[i].data]]

month_order_combined ==
  [Jan |-> 1, Feb |-> 2, Mar |-> 3, Apr |-> 4, May |-> 5, Jun |-> 6,
   Jul |-> 7, Aug |-> 8, Sep |-> 9, Oct |-> 10, Nov |-> 11, Dec |-> 12]

\* the rows of one report, tagged with the period columns
TagRows(report) ==
  LET df == FilterTotal(report.data)
      month_num == IF report.month \in DOMAIN month_order_combined
                   THEN month_order_combined[report.month] ELSE 0
  IN [i \in 1..Len(df) |->
        [Name |-> df[i].Name, Category |-> df[i].Category,
         Sold |-> df[i].Sold, NetSales |-> df[i].NetSales,
         Month |-> [month |-> report.month, year |-> report.year],
         MonthSort |-> IntStr(report.year) \o Dash \o TwoDigits(month_num),
         MonthIndex |-> month_num,
         Year |-> report.year]]

\* the body of the loop of get_combined_data for one report
combined_frame(report) ==
  setitem(boolean_index(copy(bind(report)), FilterTotal(report.data)),
          TagRows(report))

after_get_combined_data(files) ==
  after(files, [i \in 1..Len(files) |->
                  IF files[i] = None THEN None ELSE combined_frame(files[i])])

\* a merge that keeps only the first report of each period
RECURSIVE get_combined_data_first_of_period(_)
get_combined_data_first_of_period(rs) ==
  IF rs = <<>> THEN <<>>
  ELSE LET init == SubSeq(rs, 1, Len(rs) - 1)
           last == rs[Len(rs)]
       IN get_combined_data_first_of_period(init) \o
            (IF \E i \in 1..Len(init) :
                  init[i].month = last.month /\ init[i].year = last.year
             THEN <<>> ELSE TagRows(last))

RECURSIVE get_combined_data(_)
get_combined_data(rs) ==
  IF rs = <<>> THEN <<>>
  ELSE TagRows(Head(rs)) \o get_combined_data(Tail(rs))

month_num_key ==
  [January |-> 1, February |-> 2, March |-> 3, April |-> 4, May |-> 5,
   June |-> 6, July |-> 7, August |-> 8, September |-> 9, October |-> 10,
   November |-> 11, December |-> 12,
   Jan |-> 1, Feb |-> 2, Mar |-> 3, Apr |-> 4, Jun |-> 6,
   Jul |-> 7, Aug |-> 8, Sep |-> 9, Oct |-> 10, Nov |-> 11, Dec |-> 12]

\* the key of a "Month Year" label: "YYYY-MM"
get_month_year_key(label) ==
  LET month_val == IF label.month \in DOMAIN month_num_key
                   THEN month_num_key[label.month] ELSE 0
  IN IntStr(label.year) \o Dash \o TwoDigits(month_val)

\* a column taken as it is, duplicates included
not_unique(s) == s

\* Series.unique(): the distinct values in order of first appearance
RECURSIVE unique(_)
unique(s) ==
  IF s = <<>> THEN <<>>
  ELSE LET u == unique(SubSeq(s, 1, Len(s) - 1))
       IN IF s[Len(s)] \in Range(u) THEN u ELSE Append(u, s[Len(s)])

MonthColumn(df) == [i \in 1..Len(df) |-> df[i].Month]

months_of(combined_df) ==
  LET all_months == unique(MonthColumn(combined_df))
  IN sorted(all_months, [i \in 1..Len(all_months) |-> get_month_year_key(all_months[i])])

(***************************************************************************)
(* Quotients.  Num(n, d) is the number n/d, d > 0; NA is the 'N/A' that    *)
(* main.py prints; Inf, NegInf and NaN are what pandas gives for x/0.      *)
(***************************************************************************)
Num(n, d) == [kind |-> "num", num |-> n, den |-> d]
NA == [kind |-> "N/A"]
Inf == [kind |-> "inf"]
NegInf == [kind |-> "-inf"]
NaN == [kind |-> "nan"]

\* Series / Series and Series / scalar in pandas (float division)
FloatDiv(a, b) ==
  IF b > 0 THEN Num(a, b)
  ELSE IF b < 0 THEN Num(-a, -b)
  ELSE IF a > 0 THEN Inf
  ELSE IF a < 0 THEN NegInf
  ELSE NaN

\* df[col].sum()
ColSum(df, col) == SumSeq([i \in 1..Len(df) |-> df[i][col]])

(***************************************************************************)
(* main.py, the 'monthly' command: totals per report and growth rates.     *)
(***************************************************************************)
MonthLabel(report) == [month |-> report.month, year |-> report.year]

MonthlyTotals(srt) ==
  [i \in 1..Len(srt) |->
     LET df_filtered == FilterTotal(srt[i].data)
     IN [month |-> MonthLabel(srt[i]),
         units |-> ColSum(df_filtered, "Sold"),
         sales |-> ColSum(df_filtered, "NetSales")]]

\* lines 207-218: the growth of one column between two adjacent totals
GrowthMain(prev, curr) ==
  IF prev > 0 THEN Num((curr - prev) * 100, prev) ELSE NA

growth_data(totals) ==
  [k \in 1..(Len(totals) - 1) |->
     [from |-> totals[k].month, to |-> totals[k + 1].month,
      units_growth |-> GrowthMain(totals[k].units, totals[k + 1].units),
      sales_growth |-> GrowthMain(totals[k].sales, totals[k + 1].sales)]]

\* df = report['data']; df_filtered = df[df['Category Name'] != 'TOTAL']
monthly_frame(report) == boolean_index(bind(report), FilterTotal(report.data))

after_monthly(files) ==
  IF Len(parsed_reports_of(files)) < 2 THEN files
  ELSE after(files, [i \in 1..Len(files) |->
                       IF files[i] = None THEN None ELSE monthly_frame(files[i])])

MonthlyResult(parsed_reports) ==
  IF Len(parsed_reports) < 2
  THEN [status |-> "Not enough valid reports"]
  ELSE LET srt == sorted_reports(parsed_reports)
           totals == MonthlyTotals(srt)
       IN [status |-> "ok",
           sorted_reports |-> srt,
           totals |-> totals,
           growth_data |-> growth_data(totals)]

(***************************************************************************)
(* dashboard.py: the sidebar filter and the Monthly Analysis page.         *)
(***************************************************************************)
\* f"{report['month']} {report['year']}" as a string
LabelStr(label) == TokenChars[label.month] \o <<32>> \o IntStr(label.year)

\* the arrangements of the row numbers in S in which no row precedes a row
\* that is strictly before it
RECURSIVE Arrangements(_, _)
Arrangements(S, before) ==
  IF S = {} THEN {<<>>}
  ELSE UNION {{<<i>> \o t : t \in Arrangements(S \ {i}, before)} :
                i \in {k \in S : \A j \in S : <<j, k>> \notin before}}

\* DataFrame.sort_values with the default kind='quicksort', which is not a
\* stable sort: every arrangement of the rows in which no row precedes a row
\* that the sort order puts strictly before it.  before is the set of the
\* pairs <<i, j>> such that row i of df is strictly before row j.
sort_values(df, before) ==
  {[i \in 1..Len(df) |-> df[f[i]]] : f \in Arrangements(1..Len(df), before)}

\* DataFrame.head(n)
head(df, n) == SubSeq(df, 1, IF Len(df) < n THEN Len(df) ELSE n)

\* combined_df[combined_df['Month'].isin(selected_months)]
filtered_df(combined_df, selected_months) ==
  SelectSeq(combined_df, LAMBDA row : row.Month \in selected_months)

RowsOfMonth(df, label) == SelectSeq(df, LAMBDA row : row.Month = label)

\* filtered_df.groupby('Month').agg(sum): one row per label, in the order
\* of the label strings
groupby_month(df) ==
  LET present == unique(MonthColumn(df))
      labels == sorted(present, [i \in 1..Len(present) |-> LabelStr(present[i])])
  IN [i \in 1..Len(labels) |->
        [Month |-> labels[i],
         NetSales |-> ColSum(RowsOfMonth(df, labels[i]), "NetSales"),
         Sold |-> ColSum(RowsOfMonth(df, labels[i]), "Sold"),
         SortKey |-> get_month_year_key(labels[i])]]

\* the order of the 'Month Year' labels as strings
LabelBefore(df) ==
  {p \in (1..Len(df)) \X (1..Len(df)) :
     KeyLess(LabelStr(df[p[1]].Month), LabelStr(df[p[2]].Month))}

\* sort_values('SortKey', ascending=True)
SortKeyBefore(df) ==
  {p \in (1..Len(df)) \X (1..Len(df)) : KeyLess(df[p[1]].SortKey, df[p[2]].SortKey)}

\* Series.pct_change() * 100 at one position: curr / prev - 1
pct_change(prev, curr) ==
  LET q == FloatDiv(curr, prev)
  IN IF q.kind = "num" THEN Num((q.num - q.den) * 100, q.den) ELSE q

\* lines 295-298
with_growth(monthly_data) ==
  IF Len(monthly_data) > 1
  THEN [i \in 1..Len(monthly_data) |->
          [Month |-> monthly_data[i].Month,
           NetSales |-> monthly_data[i].NetSales,
           Sold |-> monthly_data[i].Sold,
           SalesGrowth |-> IF i = 1 THEN NaN
                           ELSE pct_change(monthly_data[i - 1].NetSales,
                                           monthly_data[i].NetSales),
           UnitsGrowth |-> IF i = 1 THEN NaN
                           ELSE pct_change(monthly_data[i - 1].Sold,
                                           monthly_data[i].Sold)]]
  ELSE [i \in 1..Len(monthly_data) |->
          [Month |-> monthly_data[i].Month,
           NetSales |-> monthly_data[i].NetSales,
           Sold |-> monthly_data[i].Sold]]

\* growth_df['SortKey'] = growth_df['Month'].apply(get_month_year_key) and
\* sort_values('SortKey', ascending=True)
MonthKeyBefore(df) ==
  {p \in (1..Len(df)) \X (1..Len(df)) :
     KeyLess(get_month_year_key(df[p[1]].Month), get_month_year_key(df[p[2]].Month))}

\* lines 343-351: the rows of the growth chart, the possible values of
\* growth_df; dropna drops a row whose Sales Growth is NaN but not one whose
\* Sales Growth is inf
growth_df(monthly_data) ==
  IF Len(monthly_data) > 1
  THEN LET kept == SelectSeq(monthly_data, LAMBDA row : row.SalesGrowth.kind # "nan")
       IN sort_values(kept, MonthKeyBefore(kept))
  ELSE {<<>>}

\* f"{x:.2f}%" if pd.notna(x) else "N/A": the text of a growth value; inf is
\* not NA and is formatted as 'inf%'
format_growth(x) ==
  IF x.kind # "nan" THEN [text |-> "%", value |-> x] ELSE [text |-> "N/A"]

\* lines 376-383: the Monthly Performance table; of the growth columns only
\* Sales Growth is formatted
display_df(monthly_data) ==
  IF Len(monthly_data) > 1
  THEN [i \in 1..Len(monthly_data) |->
          [Month |-> monthly_data[i].Month,
           SalesGrowth |-> format_growth(monthly_data[i].SalesGrowth),
           UnitsGrowth |-> monthly_data[i].UnitsGrowth]]
  ELSE [i \in 1..Len(monthly_data) |-> [Month |-> monthly_data[i].Month]]

\* what every run of the dashboard script computes before the page
Loaded(parsed) ==
  LET rs == get_reports(parsed)
      combined_df == get_combined_data(rs)
  IN [reports |-> rs, combined_df |-> combined_df, months |-> months_of(combined_df)]

(***************************************************************************)
(* Grouping and ranking: groupby(...).agg(sum), sort_values, head.         *)
(***************************************************************************)
\* the strings of the modelled tables in the order of Python's str
StringOrder ==
  <<"Apple", "Berry", "Cherry", "Grape", "Juice", "Kiwi", "Lemon", "Melon", "Mint",
    "Subtotal", "TOTAL", "Total", "Vape", "total">>

StrRank(str) == CHOOSE i \in 1..Len(StringOrder) : StringOrder[i] = str

\* the distinct values of the columns cols, in the sorted order of groupby
group_keys(df, cols) ==
  LET present == unique([i \in 1..Len(df) |-> [k \in 1..Len(cols) |-> df[i][cols[k]]]])
  IN sorted(present,
            [i \in 1..Len(present) |->
               [k \in 1..Len(cols) |-> StrRank(present[i][k])]])

group_rows(df, cols, key) ==
  SelectSeq(df, LAMBDA row : \A k \in 1..Len(cols) : row[cols[k]] = key[k])

\* an aggregation that keeps the last row of each group instead of the sum
groupby_name_last(df) ==
  LET keys == group_keys(df, <<"Name">>)
  IN [i \in 1..Len(keys) |->
        LET rows == group_rows(df, <<"Name">>, keys[i])
        IN [Name |-> keys[i][1], Sold |-> rows[Len(rows)].Sold,
            NetSales |-> rows[Len(rows)].NetSales]]

\* groupby('Name').agg({'Sold': 'sum', 'Net Sales': 'sum'}).reset_index()
groupby_name(df) ==
  LET keys == group_keys(df, <<"Name">>)
  IN [i \in 1..Len(keys) |->
        [Name |-> keys[i][1],
         Sold |-> ColSum(group_rows(df, <<"Name">>, keys[i]), "Sold"),
         NetSales |-> ColSum(group_rows(df, <<"Name">>, keys[i]), "NetSales")]]

\* groupby('Category Name').agg({'Sold': 'sum', 'Net Sales': 'sum'})
groupby_category(df) ==
  LET keys == group_keys(df, <<"Category">>)
  IN [i \in 1..Len(keys) |->
        [Category |-> keys[i][1],
         Sold |-> ColSum(group_rows(df, <<"Category">>, keys[i]), "Sold"),
         NetSales |-> ColSum(group_rows(df, <<"Category">>, keys[i]), "NetSales")]]

\* the order of ascending=True
Ascending(df, col) ==
  {p \in (1..Len(df)) \X (1..Len(df)) : df[p[1]][col] < df[p[2]][col]}

\* sort_values(col, ascending=False): the pairs of rows in strict order
Descending(df, col) ==
  {p \in (1..Len(df)) \X (1..Len(df)) : df[p[1]][col] > df[p[2]][col]}

\* x / total * 100
percent_of(x, total) ==
  LET q == FloatDiv(x, total)
  IN IF q.kind = "num" THEN Num(q.num * 100, q.den) ELSE q

\* pd.concat([report['data'] for report in parsed_reports])
RECURSIVE concat_data(_)
concat_data(rs) ==
  IF rs = <<>> THEN <<>> ELSE Head(rs).data \o concat_data(Tail(rs))

(***************************************************************************)
(* main.py: the 'top' and 'category' commands.                             *)
(***************************************************************************)
TopN == 20

\* the smallest values of the sliders of the Top Products page, and the
\* number of rows of the Product Analysis chart
TopNMin == 5
MinUnitsMin == 1
TopProducts == 10
SearchTop == 10

\* lines 57-69: the possible values of top_by_revenue
top_by_revenue(parsed_reports) ==
  LET all_data_filtered == FilterTotal(concat_data(parsed_reports))
      product_sales == groupby_name(all_data_filtered)
  IN {head(srt, TopN) :
        srt \in sort_values(product_sales, Descending(product_sales, "NetSales"))}

\* the percentages taken of the total of all rows, the TOTAL lines included
category_sales_of_all_rows(parsed_reports) ==
  LET all_data == concat_data(parsed_reports)
      grouped == groupby_category(FilterTotal(all_data))
  IN {[i \in 1..Len(srt) |->
         [Category |-> srt[i].Category, Sold |-> srt[i].Sold,
          NetSales |-> srt[i].NetSales,
          PercentOfTotal |-> percent_of(srt[i].NetSales, ColSum(all_data, "NetSales"))]] :
        srt \in sort_values(grouped, Descending(grouped, "NetSales"))}

\* lines 85-98: the possible values of category_sales
category_sales(parsed_reports) ==
  LET all_data_filtered == FilterTotal(concat_data(parsed_reports))
      total_net_sales == ColSum(all_data_filtered, "NetSales")
      grouped == groupby_category(all_data_filtered)
  IN {[i \in 1..Len(srt) |->
         [Category |-> srt[i].Category, Sold |-> srt[i].Sold,
          NetSales |-> srt[i].NetSales,
          PercentOfTotal |-> percent_of(srt[i].NetSales, total_net_sales)]] :
        srt \in sort_values(grouped, Descending(grouped, "NetSales"))}

(***************************************************************************)
(* dashboard.py: the pages Dashboard Overview, Product Analysis, Category  *)
(* Analysis and Top Products.                                              *)
(***************************************************************************)
\* Series.nunique()
nunique(df, col) == Cardinality({df[i][col] : i \in 1..Len(df)})

\* lines 171-174
overview_metrics(df) ==
  LET total_sales == ColSum(df, "NetSales")
      total_units == ColSum(df, "Sold")
  IN [total_sales |-> total_sales,
      total_units |-> total_units,
      avg_price |-> IF total_units > 0 THEN Num(total_sales, total_units) ELSE Num(0, 1),
      unique_products |-> nunique(df, "Name")]

\* str.contains(search_term, case=False) for the search terms of the model
NameContains(name, search_term) ==
  \/ search_term = ""
  \/ search_term = "mint" /\ name = "Mint"
  \/ search_term = "KIWI" /\ name = "Kiwi"

\* lines 401-411
product_df(df, selected_category, search_term) ==
  LET by_category == IF selected_category # "All Categories"
                     THEN SelectSeq(df, LAMBDA row : row.Category = selected_category)
                     ELSE df
  IN IF search_term # ""
     THEN SelectSeq(by_category, LAMBDA row : NameContains(row.Name, search_term))
     ELSE by_category

\* lines 417-424: groupby('Name') with the first category, and Avg Price
product_perf(df) ==
  LET keys == group_keys(df, <<"Name">>)
  IN [i \in 1..Len(keys) |->
        LET rows == group_rows(df, <<"Name">>, keys[i])
        IN [Name |-> keys[i][1],
            NetSales |-> ColSum(rows, "NetSales"),
            Sold |-> ColSum(rows, "Sold"),
            Category |-> rows[1].Category,
            AvgPrice |-> FloatDiv(ColSum(rows, "NetSales"), ColSum(rows, "Sold"))]]

\* lines 486-497, before the sort
category_data(df) ==
  LET keys == group_keys(df, <<"Category">>)
      sums == [i \in 1..Len(keys) |->
                 ColSum(group_rows(df, <<"Category">>, keys[i]), "NetSales")]
      total_sales == SumSeq(sums)
  IN [i \in 1..Len(keys) |->
        LET rows == group_rows(df, <<"Category">>, keys[i])
        IN [Category |-> keys[i][1],
            NetSales |-> sums[i],
            Sold |-> ColSum(rows, "Sold"),
            Products |-> nunique(rows, "Name"),
            PercentOfSales |-> percent_of(sums[i], total_sales),
            AvgPrice |-> FloatDiv(sums[i], ColSum(rows, "Sold"))]]

\* lines 601-607
product_data(df) ==
  LET keys == group_keys(df, <<"Name", "Category">>)
  IN [i \in 1..Len(keys) |->
        LET rows == group_rows(df, <<"Name", "Category">>, keys[i])
        IN [Name |-> keys[i][1], Category |-> keys[i][2],
            NetSales |-> ColSum(rows, "NetSales"),
            Sold |-> ColSum(rows, "Sold"),
            AvgPrice |-> FloatDiv(ColSum(rows, "NetSales"), ColSum(rows, "Sold"))]]

\* a / b > c / d for quotients; NaN is placed last by sort_values
QuotientGreater(x, y) ==
  CASE x.kind = "nan" -> FALSE
    [] y.kind = "nan" -> TRUE
    [] x.kind = "inf" -> y.kind # "inf"
    [] y.kind = "inf" -> FALSE
    [] OTHER -> x.num * y.den > y.num * x.den

\* sort_values('Avg Price', ascending=False)
DescendingAvgPrice(df) ==
  {p \in (1..Len(df)) \X (1..Len(df)) : QuotientGreater(df[p[1]].AvgPrice, df[p[2]].AvgPrice)}

\* the threshold applied to the wrong column
at_least_net_sales(df, min_units) == SelectSeq(df, LAMBDA row : row.NetSales >= min_units)

\* product_data[product_data['Sold'] >= min_units]
at_least_units(df, min_units) == SelectSeq(df, LAMBDA row : row.Sold >= min_units)

\* line 679: the possible values of top_by_margin
top_by_margin(df, min_units, top_n) ==
  LET enough == at_least_units(df, min_units)
  IN {head(srt, top_n) : srt \in sort_values(enough, DescendingAvgPrice(enough))}

(***************************************************************************)
(* inventory.py check_low_stock and reports.py low_stock_report.  A row    *)
(* of the products table is [quantity, min_stock, cost]; its id is its     *)
(* position in the table.  The quotients and products with 0.25 and 0.5    *)
(* are exact in floating point for the integers of a stock table, so they  *)
(* are compared here as fractions.                                         *)
(***************************************************************************)
\* WHERE quantity <= min_stock: the ids of the selected rows
\* a query that selects every product
all_product_ids(table) == 1..Len(table)

low_stock_ids(table) == {i \in 1..Len(table) : table[i].quantity <= table[i].min_stock}

\* r <= a / b, for a quotient r and b > 0
QuotientLeq(r, a, b) == r.num * b <= a * r.den

\* the comparisons strict instead of inclusive
stock_status_strict(product) ==
  LET ratio == FloatDiv(product.quantity, product.min_stock)
  IN IF product.quantity = 0 THEN "OUT OF STOCK"
     ELSE IF ~QuotientLeq(Num(1, 4), ratio.num, ratio.den) THEN "CRITICAL"
     ELSE IF ~QuotientLeq(Num(1, 2), ratio.num, ratio.den) THEN "LOW"
     ELSE "WARNING"

\* inventory.py lines 231-239, for a row with min_stock # 0
stock_status(product) ==
  LET ratio == FloatDiv(product.quantity, product.min_stock)
  IN IF product.quantity = 0 THEN "OUT OF STOCK"
     ELSE IF QuotientLeq(ratio, 1, 4) THEN "CRITICAL"
     ELSE IF QuotientLeq(ratio, 1, 2) THEN "LOW"
     ELSE "WARNING"

\* item['quantity'] <= item['min_stock'] * 0.25 (and 0.5): min_stock * a / b
LeqShare(quantity, min_stock, a, b) == quantity * b <= min_stock * a

\* an export without the case of quantity 0
csv_status_without_zero_case(item) ==
  IF LeqShare(item.quantity, item.min_stock, 1, 4) THEN "CRITICAL"
  ELSE IF LeqShare(item.quantity, item.min_stock, 1, 2) THEN "LOW"
  ELSE "WARNING"

\* reports.py lines 601-609: the Status column of the CSV export
csv_status(item) ==
  IF item.quantity = 0 THEN "OUT OF STOCK"
  ELSE IF LeqShare(item.quantity, item.min_stock, 1, 4) THEN "CRITICAL"
  ELSE IF LeqShare(item.quantity, item.min_stock, 1, 2) THEN "LOW"
  ELSE "WARNING"

\* reports.py lines 531-539: the group of an item on the screen
severity_group(item) ==
  IF item.quantity = 0 THEN "critical"
  ELSE IF LeqShare(item.quantity, item.min_stock, 1, 4) THEN "critical"
  ELSE IF LeqShare(item.quantity, item.min_stock, 1, 2) THEN "low"
  ELSE "warning"

RECURSIVE SumOver(_, _)
SumOver(f, S) ==
  IF S = {} THEN 0
  ELSE LET x == CHOOSE y \in S : TRUE IN f[x] + SumOver(f, S \ {x})

\* reports.py line 524
total_restock_cost(table, ids) ==
  SumOver([i \in ids |-> (table[i].min_stock - table[i].quantity) * table[i].cost],
          {i \in ids : table[i].quantity < table[i].min_stock})

(***************************************************************************)
(* Inputs: the parsed reports, in the order get_available_reports gives.   *)
(***************************************************************************)
Row(n, c, u, s) == [Name |-> n, Category |-> c, Sold |-> u, NetSales |-> s]

PeriodReports ==
  {[month |-> m, year |-> y, data |-> <<Row("Mint", "Vape", 1, 2)>>] :
     m \in MonthTokens, y \in Years}

SeriesPeriods ==
  {[month |-> "Dec", year |-> 2023], [month |-> "Jan", year |-> 2024],
   [month |-> "Feb", year |-> 2024]}

\* tables of a report: with and without the TOTAL line, with categories
\* whose names contain "total", with zero totals
DataSets ==
  {<<Row("Mint", "Vape", 0, 0)>>,
   <<Row("TOTAL", "TOTAL", 5, 500)>>,
   <<Row("Mint", "Vape", 1, 50), Row("Kiwi", "Total", 1, 50),
     Row("TOTAL", "TOTAL", 2, 100)>>,
   <<Row("Mint", "Subtotal", 1, 50), Row("Kiwi", "total", 2, 100)>>}

SeriesReports ==
  {[month |-> p.month, year |-> p.year, data |-> d] :
     p \in SeriesPeriods, d \in DataSets}

\* two reports of one year whose month tokens are of any form
TokenReports ==
  {[month |-> t, year |-> 2024, data |-> <<Row("Mint", "Vape", 1, 2)>>] :
     t \in DOMAIN TokenChars}

\* one report with six products; two of the sales figures tie on revenue
RankingNames == <<"Apple", "Berry", "Cherry", "Grape", "Lemon", "Melon">>

RankingSales ==
  <<[Sold |-> 1, NetSales |-> 30], [Sold |-> 2, NetSales |-> 20],
    [Sold |-> 3, NetSales |-> 30]>>

\* the first three products have the three sales figures, the others any
RankingFigures ==
  {f \in [1..Len(RankingNames) -> Range(RankingSales)] :
     \A i \in 1..Len(RankingSales) : f[i] = RankingSales[i]}

RankingReports ==
  {[month |-> "Jan", year |-> 2024,
    data |-> [i \in 1..Len(RankingNames) |->
                Row(RankingNames[i], "Vape", f[i].Sold, f[i].NetSales)]] :
     f \in RankingFigures}

\* what parse_report gives for the files of a run: a report, or None for a
\* file that cannot be parsed
\* main.py 'search': the rows of one report whose name contains the term
\* (TOTAL rows are searched like any other), tagged with the report's label
search_matches(report, search_term) ==
  LET matches == SelectSeq(report.data,
                           LAMBDA row : NameContains(row.Name, search_term))
  IN [i \in 1..Len(matches) |->
        [Name |-> matches[i].Name, Category |-> matches[i].Category,
         Sold |-> matches[i].Sold, NetSales |-> matches[i].NetSales,
         Report |-> MonthLabel(report)]]

\* df = report['data']; matches = df[mask].copy(); matches['Report'] = ...
search_frame(report, search_term) ==
  LET df == bind(report)
      mask == SelectSeq(report.data,
                        LAMBDA row : NameContains(row.Name, search_term))
  IN IF mask # <<>>
     THEN setitem(copy(boolean_index(df, mask)),
                  search_matches(report, search_term))
     ELSE df

RECURSIVE search_results(_, _)
search_results(rs, search_term) ==
  IF rs = <<>> THEN <<>>
  ELSE search_matches(Head(rs), search_term) \o
         search_results(Tail(rs), search_term)

after_search(files, search_term) ==
  after(files, [i \in 1..Len(files) |->
                  IF files[i] = None THEN None
                  ELSE search_frame(files[i], search_term)])

SearchTerms == {"", "mint", "KIWI"}

FileResults ==
  {None} \cup
  {[month |-> p.month, year |-> p.year, data |-> d] :
     p \in SeriesPeriods,
     d \in {<<Row("Mint", "Vape", 1, 50), Row("TOTAL", "TOTAL", 1, 50)>>,
            <<Row("Mint", "Vape", 2, 80), Row("Kiwi", "Vape", 1, 20)>>}}

(***************************************************************************)
(* Actions.                                                                *)
(***************************************************************************)
\* python3 main.py monthly
MonthlyCmd ==
  /\ op = "start"
  /\ op' = "monthly"
  /\ out' = MonthlyResult(parsed_reports_of(reports))
  /\ reports' = after_monthly(reports)
  /\ menu' = "returned"
  /\ UNCHANGED <<products, categories>>

\* the dashboard with the page "Monthly Analysis".  With no report at all
\* combined_df is pd.DataFrame(), which has no 'Month' column, and line 154
\* raises KeyError.
MonthlyAnalysisPage ==
  /\ op = "start"
  /\ op' = "Monthly Analysis"
  /\ IF parsed_reports_of(reports) = <<>>
     THEN out' = [status |-> "KeyError"]
     ELSE LET ld == Loaded(parsed_reports_of(reports))
          IN \E selected_months \in SUBSET Range(ld.months) :
               \E monthly_data \in
                    LET grouped == groupby_month(filtered_df(ld.combined_df, selected_months))
                    IN sort_values(grouped, SortKeyBefore(grouped)) :
                 \E growth \in growth_df(with_growth(monthly_data)) :
                   out' = [status |-> "ok",
                           reports |-> ld.reports, combined_df |-> ld.combined_df,
                           months |-> ld.months,
                           selected_months |-> selected_months,
                           monthly_data |-> with_growth(monthly_data),
                           growth_df |-> growth,
                           display_df |-> display_df(with_growth(monthly_data))]
  /\ reports' = after_get_combined_data(reports)
  /\ UNCHANGED <<products, categories, menu>>

\* inventory.py check_low_stock: the status printed for each selected row.
\* The quotient of line 231 is taken before quantity is looked at, so a
\* selected row with min_stock = 0 raises ZeroDivisionError.
CheckLowStock ==
  /\ op = "start"
  /\ op' = "check_low_stock"
  /\ LET low_stock == low_stock_ids(products)
     IN out' =
          IF low_stock = {} THEN [status |-> "No products are below minimum stock levels"]
          ELSE IF \E i \in low_stock : products[i].min_stock = 0
          THEN [status |-> "ZeroDivisionError"]
          ELSE [status |-> "ok",
                status_of |-> [i \in low_stock |-> stock_status(products[i])]]
  /\ UNCHANGED <<reports, products, categories, menu>>

\* reports.py low_stock_report, with the answer to "Export to CSV? (y/n)"
LowStockReport ==
  /\ op = "start"
  /\ op' = "low_stock_report"
  /\ LET low_stock == low_stock_ids(products)
     IN \E export_choice \in {"y", "n"} :
          out' =
            IF low_stock = {} THEN [status |-> "No products are below minimum stock levels"]
            ELSE [status |-> "ok",
                  total |-> Cardinality(low_stock),
                  total_restock_cost |-> total_restock_cost(products, low_stock),
                  critical |-> {i \in low_stock : severity_group(products[i]) = "critical"},
                  low |-> {i \in low_stock : severity_group(products[i]) = "low"},
                  warning |-> {i \in low_stock : severity_group(products[i]) = "warning"},
                  exported |-> export_choice = "y",
                  status_of |-> IF export_choice = "y"
                                THEN [i \in low_stock |-> csv_status(products[i])]
                                ELSE <<>>]
  /\ UNCHANGED <<reports, products, categories, menu>>

\* python3 main.py top
TopCmd ==
  /\ op = "start"
  /\ op' = "top"
  /\ IF parsed_reports_of(reports) = <<>>
     THEN out' = [status |-> "no reports"]
     ELSE \E top \in top_by_revenue(parsed_reports_of(reports)) :
            out' = [status |-> "ok", top |-> top]
  /\ menu' = "returned"
  /\ UNCHANGED <<reports, products, categories>>

\* python3 main.py category
CategoryCmd ==
  /\ op = "start"
  /\ op' = "category"
  /\ IF parsed_reports_of(reports) = <<>>
     THEN out' = [status |-> "no reports"]
     ELSE \E sales \in category_sales(parsed_reports_of(reports)) :
            out' = [status |-> "ok", category_sales |-> sales]
  /\ menu' = "returned"
  /\ UNCHANGED <<reports, products, categories>>

\* the dashboard with the page "Dashboard Overview": the summary metrics
OverviewPage ==
  /\ op = "start"
  /\ op' = "Dashboard Overview"
  /\ IF parsed_reports_of(reports) = <<>>
     THEN out' = [status |-> "KeyError"]
     ELSE LET ld == Loaded(parsed_reports_of(reports))
          IN \E selected_months \in SUBSET Range(ld.months) :
               out' = [status |-> "ok", selected_months |-> selected_months,
                       metrics |-> overview_metrics(filtered_df(ld.combined_df,
                                                                selected_months))]
  /\ reports' = after_get_combined_data(reports)
  /\ UNCHANGED <<products, categories, menu>>

\* the dashboard with the page "Product Analysis"
ProductAnalysisPage ==
  /\ op = "start"
  /\ op' = "Product Analysis"
  /\ IF parsed_reports_of(reports) = <<>>
     THEN out' = [status |-> "KeyError"]
     ELSE LET ld == Loaded(parsed_reports_of(reports))
          IN \E selected_months \in SUBSET Range(ld.months) :
               LET filtered == filtered_df(ld.combined_df, selected_months)
                   category_names == {filtered[i].Category : i \in 1..Len(filtered)}
               IN \E selected_category \in {"All Categories"} \cup category_names,
                     search_term \in {"", "mint", "KIWI"} :
                    LET perf == product_perf(product_df(filtered, selected_category,
                                                        search_term))
                    IN \E srt \in sort_values(perf, Descending(perf, "NetSales")) :
                         out' = [status |-> "ok", selected_months |-> selected_months,
                                 selected_category |-> selected_category,
                                 search_term |-> search_term,
                                 product_perf |-> srt,
                                 top_products |-> head(srt, TopProducts)]
  /\ reports' = after_get_combined_data(reports)
  /\ UNCHANGED <<products, categories, menu>>

\* the dashboard with the page "Category Analysis"
CategoryAnalysisPage ==
  /\ op = "start"
  /\ op' = "Category Analysis"
  /\ IF parsed_reports_of(reports) = <<>>
     THEN out' = [status |-> "KeyError"]
     ELSE LET ld == Loaded(parsed_reports_of(reports))
          IN \E selected_months \in SUBSET Range(ld.months) :
               LET data == category_data(filtered_df(ld.combined_df, selected_months))
               IN \E srt \in sort_values(data, Descending(data, "NetSales")) :
                    out' = [status |-> "ok", selected_months |-> selected_months,
                            category_data |-> srt]
  /\ reports' = after_get_combined_data(reports)
  /\ UNCHANGED <<products, categories, menu>>

\* the dashboard with the page "Top Products", one action for each tab; every
\* tab is computed from the same product_data
TopByRevenueTab ==
  /\ op = "start"
  /\ op' = "Top Products: By Revenue"
  /\ IF parsed_reports_of(reports) = <<>>
     THEN out' = [status |-> "KeyError"]
     ELSE LET ld == Loaded(parsed_reports_of(reports))
          IN \E selected_months \in SUBSET Range(ld.months), top_n \in TopNMin..MaxTopN :
               LET data == product_data(filtered_df(ld.combined_df, selected_months))
               IN \E srt \in sort_values(data, Descending(data, "NetSales")) :
                    out' = [status |-> "ok", selected_months |-> selected_months,
                            product_data |-> data, top_n |-> top_n,
                            top |-> head(srt, top_n)]
  /\ reports' = after_get_combined_data(reports)
  /\ UNCHANGED <<products, categories, menu>>

TopByUnitsTab ==
  /\ op = "start"
  /\ op' = "Top Products: By Units Sold"
  /\ IF parsed_reports_of(reports) = <<>>
     THEN out' = [status |-> "KeyError"]
     ELSE LET ld == Loaded(parsed_reports_of(reports))
          IN \E selected_months \in SUBSET Range(ld.months), top_n \in TopNMin..MaxTopN :
               LET data == product_data(filtered_df(ld.combined_df, selected_months))
               IN \E srt \in sort_values(data, Descending(data, "Sold")) :
                    out' = [status |-> "ok", selected_months |-> selected_months,
                            product_data |-> data, top_n |-> top_n,
                            top |-> head(srt, top_n)]
  /\ reports' = after_get_combined_data(reports)
  /\ UNCHANGED <<products, categories, menu>>

TopByMarginTab ==
  /\ op = "start"
  /\ op' = "Top Products: By Profit Margin"
  /\ IF parsed_reports_of(reports) = <<>>
     THEN out' = [status |-> "KeyError"]
     ELSE LET ld == Loaded(parsed_reports_of(reports))
          IN \E selected_months \in SUBSET Range(ld.months), top_n \in TopNMin..MaxTopN,
                min_units \in MinUnitsMin..MaxMinUnits :
               LET data == product_data(filtered_df(ld.combined_df, selected_months))
               IN \E top \in top_by_margin(data, min_units, top_n) :
                    out' = [status |-> "ok", selected_months |-> selected_months,
                            product_data |-> data, top_n |-> top_n,
                            min_units |-> min_units, top |-> top]
  /\ reports' = after_get_combined_data(reports)
  /\ UNCHANGED <<products, categories, menu>>

\* python3 main.py search <term>
SearchCmd ==
  /\ op = "start"
  /\ op' = "search"
  /\ \E search_term \in SearchTerms :
       LET all_results == search_results(parsed_reports_of(reports), search_term)
       IN /\ IF all_results = <<>>
             THEN out' = [status |-> "No matches found", search_term |-> search_term]
             ELSE \E srt \in sort_values(all_results,
                                         Descending(all_results, "NetSales")) :
                    out' = [status |-> "ok", search_term |-> search_term,
                            found |-> Len(all_results),
                            matches |-> head(srt, SearchTop)]
          /\ reports' = after_search(reports, search_term)
  /\ menu' = "returned"
  /\ UNCHANGED <<products, categories>>

InitPeriods ==
  /\ reports \in SeqsUpTo(PeriodReports, MaxReports)
  /\ products = <<>>
  /\ categories = <<>>
  /\ menu = "start"
  /\ op = "start"
  /\ out = <<>>

NextPeriods == MonthlyCmd \/ MonthlyAnalysisPage

SpecPeriods == InitPeriods /\ [][NextPeriods]_vars

InitSeries ==
  /\ reports \in SeqsUpTo(SeriesReports, MaxMerge)
  /\ products = <<>>
  /\ categories = <<>>
  /\ menu = "start"
  /\ op = "start"
  /\ out = <<>>

NextSeries == MonthlyCmd \/ MonthlyAnalysisPage

SpecSeries == InitSeries /\ [][NextSeries]_vars

\* every command and page that merges the reports, on the same inputs
NextMerge == TopCmd \/ CategoryCmd \/ MonthlyCmd \/ MonthlyAnalysisPage

SpecMerge == InitSeries /\ [][NextMerge]_vars

InitTokens ==
  /\ reports \in [1..2 -> TokenReports]
  /\ products = <<>>
  /\ categories = <<>>
  /\ menu = "start"
  /\ op = "start"
  /\ out = <<>>

NextTokens == MonthlyCmd \/ MonthlyAnalysisPage

SpecTokens == InitTokens /\ [][NextTokens]_vars

InitFiles ==
  /\ reports \in SeqsUpTo(FileResults, MaxFiles)
  /\ products = <<>>
  /\ categories = <<>>
  /\ menu = "start"
  /\ op = "start"
  /\ out = <<>>

NextFiles == MonthlyCmd \/ TopCmd \/ CategoryCmd \/ MonthlyAnalysisPage

SpecFiles == InitFiles /\ [][NextFiles]_vars

InitPages ==
  /\ reports \in SeqsUpTo(SeriesReports, MaxPageReports)
  /\ products = <<>>
  /\ categories = <<>>
  /\ menu = "start"
  /\ op = "start"
  /\ out = <<>>

NextPages ==
  \/ OverviewPage
  \/ ProductAnalysisPage
  \/ CategoryAnalysisPage
  \/ TopByRevenueTab
  \/ CategoryCmd

SpecPages == InitPages /\ [][NextPages]_vars

NextFrames ==
  \/ MonthlyCmd
  \/ SearchCmd
  \/ MonthlyAnalysisPage
  \/ ProductAnalysisPage

SpecFrames == InitPages /\ [][NextFrames]_vars

\* every command and page that divides by a total
NextDivisors ==
  \/ MonthlyCmd
  \/ CategoryCmd
  \/ OverviewPage
  \/ MonthlyAnalysisPage
  \/ ProductAnalysisPage
  \/ CategoryAnalysisPage
  \/ TopByRevenueTab

SpecDivisors == InitPages /\ [][NextDivisors]_vars

\* the commands and the pages that aggregate sales rows
NextCommands ==
  \/ TopCmd
  \/ CategoryCmd
  \/ MonthlyCmd
  \/ OverviewPage
  \/ MonthlyAnalysisPage
  \/ ProductAnalysisPage
  \/ CategoryAnalysisPage
  \/ TopByRevenueTab

SpecCommands == InitPages /\ [][NextCommands]_vars

\* the aggregations by product and by period, on the inputs of the pages
NextAggregate == TopCmd \/ MonthlyAnalysisPage

SpecAggregate == InitPages /\ [][NextAggregate]_vars

InitRanking ==
  /\ reports \in {<<r>> : r \in RankingReports}
  /\ products = <<>>
  /\ categories = <<>>
  /\ menu = "start"
  /\ op = "start"
  /\ out = <<>>

NextRanking == TopCmd \/ TopByRevenueTab \/ TopByUnitsTab \/ TopByMarginTab

SpecRanking == InitRanking /\ [][NextRanking]_vars

\* the products table: one row, every stock level up to the bounds
InitStock ==
  /\ reports = <<>>
  /\ products \in [1..1 -> [quantity : 0..MaxQuantity, min_stock : 0..MaxMinStock,
                            cost : {3}]]
  /\ categories = <<>>
  /\ menu = "start"
  /\ op = "start"
  /\ out = <<>>

NextStock == CheckLowStock \/ LowStockReport

SpecStock == InitStock /\ [][NextStock]_vars

(***************************************************************************)
(* reports.py: the time periods of the sales summary and the product       *)
(* performance reports.  A date is a record [year, month, day]: today is   *)
(* datetime.now() at midnight, and the arithmetic is that of datetime and  *)
(* timedelta.                                                              *)
(***************************************************************************)
IsLeap(year) == (year % 4 = 0 /\ year % 100 # 0) \/ year % 400 = 0

DaysInMonth(year, month) ==
  IF month = 2 THEN (IF IsLeap(year) THEN 29 ELSE 28)
  ELSE IF month \in {4, 6, 9, 11} THEN 30 ELSE 31

Date(y, m, d) == [year |-> y, month |-> m, day |-> d]

\* date + timedelta(days=1)
PlusOneDay(date) ==
  IF date.day < DaysInMonth(date.year, date.month)
  THEN Date(date.year, date.month, date.day + 1)
  ELSE IF date.month < 12 THEN Date(date.year, date.month + 1, 1)
  ELSE Date(date.year + 1, 1, 1)

\* date - timedelta(days=1)
MinusOneDay(date) ==
  IF date.day > 1 THEN Date(date.year, date.month, date.day - 1)
  ELSE IF date.month > 1
  THEN Date(date.year, date.month - 1, DaysInMonth(date.year, date.month - 1))
  ELSE Date(date.year - 1, 12, 31)

\* date - timedelta(days=n)
RECURSIVE MinusDays(_, _)
MinusDays(date, n) == IF n = 0 THEN date ELSE MinusDays(MinusOneDay(date), n - 1)

RECURSIVE DaysBeforeMonth(_, _)
DaysBeforeMonth(year, month) ==
  IF month = 1 THEN 0
  ELSE DaysBeforeMonth(year, month - 1) + DaysInMonth(year, month - 1)

\* date.toordinal(): the number of the day, 1 for 0001-01-01
toordinal(date) ==
  LET y == date.year - 1
  IN y * 365 + (y \div 4) - (y \div 100) + (y \div 400)
       + DaysBeforeMonth(date.year, date.month) + date.day

\* date.weekday(): 0 for Monday
weekday(date) == (toordinal(date) + 6) % 7

\* a 'Last Month' that takes December of the current year in January
last_month_start_same_year(today) ==
  LET last_month == today.month - 1
  IN Date(today.year, IF last_month = 0 THEN 12 ELSE last_month, 1)

\* reports.py lines 88-95 and 245-252: the first day of last month
last_month_start(today) ==
  LET last_month == today.month - 1
  IN IF last_month = 0 THEN Date(today.year - 1, 12, 1)
     ELSE Date(today.year, last_month, 1)

\* (date - timedelta(days=1)).replace(day=1), n times
RECURSIVE months_back(_, _)
months_back(date, n) ==
  IF n = 0 THEN date
  ELSE LET before == MinusOneDay(date)
       IN months_back(Date(before.year, before.month, 1), n - 1)

\* the days datetime.now() is drawn from
ClockDays ==
  {Date(y, m, d) : y \in 2023..(2022 + MaxClockYears), m \in 1..12, d \in 1..31}

Today == {t \in ClockDays : t.day <= DaysInMonth(t.year, t.month)}

\* the texts typed for a custom date range; strptime raises ValueError for a
\* day the month does not have
CustomDates == {Date(2024, 1, 31), Date(2024, 2, 1), Date(2024, 2, 30)}

custom_range(today, start_str, end_str) ==
  IF \A text \in {start_str, end_str} : text.day <= DaysInMonth(text.year, text.month)
  THEN [status |-> "ok", today |-> today, period_name |-> "Custom Date Range",
        start_date |-> start_str, end_date |-> PlusOneDay(end_str)]
  ELSE [status |-> "Invalid date format", today |-> today]

period_range(today, period_name, start_date, end_date) ==
  [status |-> "ok", today |-> today, period_name |-> period_name,
   start_date |-> start_date, end_date |-> end_date]

\* ReportManager.sales_summary_report: the period of the report
SalesSummaryReport ==
  /\ op = "start"
  /\ op' = "sales_summary_report"
  /\ \E today \in Today, choice \in {"1", "2", "3", "4", "5", "6", "7"} :
       CASE choice = "1" ->
              out' = period_range(today, "Today", today, PlusOneDay(today))
         [] choice = "2" ->
              out' = period_range(today, "Yesterday", MinusOneDay(today), today)
         [] choice = "3" ->
              out' = period_range(today, "This Week", MinusDays(today, weekday(today)),
                            PlusOneDay(today))
         [] choice = "4" ->
              out' = period_range(today, "This Month", Date(today.year, today.month, 1),
                            PlusOneDay(today))
         [] choice = "5" ->
              out' = period_range(today, "Last Month", last_month_start(today),
                            Date(today.year, today.month, 1))
         [] choice = "6" ->
              \E start_str \in CustomDates, end_str \in CustomDates :
                out' = custom_range(today, start_str, end_str)
         [] OTHER -> out' = [status |-> "Invalid option", today |-> today]
  /\ UNCHANGED <<reports, products, categories, menu>>

\* ReportManager.product_performance_report: the period of the report
ProductPerformanceReport ==
  /\ op = "start"
  /\ op' = "product_performance_report"
  /\ \E today \in Today, choice \in {"1", "2", "3", "4", "5", "6", "7"} :
       CASE choice = "1" ->
              out' = period_range(today, "This Month", Date(today.year, today.month, 1),
                            PlusOneDay(today))
         [] choice = "2" ->
              out' = period_range(today, "Last Month", last_month_start(today),
                            Date(today.year, today.month, 1))
         [] choice = "3" ->
              out' = period_range(today, "Last 3 Months",
                            months_back(Date(today.year, today.month, 1), 2),
                            PlusOneDay(today))
         [] choice = "4" ->
              out' = period_range(today, "Last 6 Months",
                            months_back(Date(today.year, today.month, 1), 5),
                            PlusOneDay(today))
         [] choice = "5" ->
              out' = period_range(today, "This Year", Date(today.year, 1, 1),
                            PlusOneDay(today))
         [] choice = "6" ->
              \E start_str \in CustomDates, end_str \in CustomDates :
                out' = custom_range(today, start_str, end_str)
         [] OTHER -> out' = [status |-> "Invalid option", today |-> today]
  /\ UNCHANGED <<reports, products, categories, menu>>

\* the report manager before a report was asked for
InitClock ==
  /\ reports = <<>>
  /\ products = <<>>
  /\ categories = <<>>
  /\ menu = "start"
  /\ op = "start"
  /\ out = <<>>

NextClock == SalesSummaryReport \/ ProductPerformanceReport

SpecClock == InitClock /\ [][NextClock]_vars

(***************************************************************************)
(* main.py: the command line and the interactive menus.  menu is "start"   *)
(* when main is entered, "returned" after a command of the command line,   *)
(* the name of the menu whose loop waits for a choice, and "exited" after   *)
(* the main loop was left.  The methods of the analyzer return to the menu *)
(* that called them.                                                       *)
(***************************************************************************)
\* the numbers each submenu handles besides '0'
Submenus ==
  [monthly_reports |-> {"1", "2", "3", "4"},
   product_analysis |-> {"1", "2", "3", "4", "5"},
   category_analysis |-> {"1", "2", "3", "4"},
   sales_rankings |-> {"1", "2", "3", "4", "5"},
   trend_analysis |-> {"1", "2", "3", "4"},
   export |-> {"1", "2", "3", "4", "5"}]

\* what the user types at "Select an option: "
Choices == {"0", "1", "2", "3", "4", "5", "6", "7", "x", ""}

\* python3 main.py help | list | <any other word>: nothing but printing
OtherCmd ==
  /\ op = "start"
  /\ menu = "start"
  /\ \E test_option \in {"help", "list", "export"} :
       /\ op' = test_option
       /\ out' = [status |-> "ok"]
  /\ menu' = "returned"
  /\ UNCHANGED <<reports, products, categories>>

\* python3 main.py with no argument: the main loop is entered
EnterMainMenu ==
  /\ op = "start"
  /\ menu = "start"
  /\ menu' = "main"
  /\ op' = "menu"
  /\ out' = [status |-> "entered"]
  /\ UNCHANGED <<reports, products, categories>>

\* the main loop, for one choice
main_menu(choice) ==
  CASE choice = "1" -> "monthly_reports"
    [] choice = "2" -> "product_analysis"
    [] choice = "3" -> "category_analysis"
    [] choice = "4" -> "sales_rankings"
    [] choice = "5" -> "trend_analysis"
    [] choice = "6" -> "export"
    [] choice = "0" -> "exited"
    [] OTHER -> "main"

MainMenuChoice ==
  /\ menu = "main"
  /\ \E choice \in Choices :
       /\ menu' = main_menu(choice)
       /\ out' = [status |-> IF choice \in {"0", "1", "2", "3", "4", "5", "6"}
                             THEN "ok" ELSE "Invalid option",
                  menu |-> menu, choice |-> choice]
  /\ op' = "menu"
  /\ UNCHANGED <<reports, products, categories>>

\* a submenu whose '0' ends the program
submenu_exits(name, choice) == IF choice = "0" THEN "exited" ELSE name

\* the loop of a submenu, for one choice: '0' breaks out of the loop and the
\* function returns into the main loop
submenu(name, choice) == IF choice = "0" THEN "main" ELSE name

SubmenuChoice ==
  /\ menu \in DOMAIN Submenus
  /\ \E choice \in Choices :
       /\ menu' = submenu(menu, choice)
       /\ out' = [status |-> IF choice \in Submenus[menu] \cup {"0"}
                             THEN "ok" ELSE "Invalid option",
                  menu |-> menu, choice |-> choice]
  /\ op' = "menu"
  /\ UNCHANGED <<reports, products, categories>>

NextMenus ==
  \/ TopCmd
  \/ CategoryCmd
  \/ SearchCmd
  \/ MonthlyCmd
  \/ OtherCmd
  \/ EnterMainMenu
  \/ MainMenuChoice
  \/ SubmenuChoice

SpecMenus == InitPages /\ [][NextMenus]_vars

\* the products table with several rows, at and around the limits of the groups
StockRows == [quantity : {0, 1, 2, 3, 5}, min_stock : {0, 4}, cost : {3}]

InitStockRows ==
  /\ reports = <<>>
  /\ products \in SeqsUpTo(StockRows, MaxStockRows)
  /\ categories = <<>>
  /\ menu = "start"
  /\ op = "start"
  /\ out = <<>>

SpecStockRows == InitStockRows /\ [][NextStock]_vars

(***************************************************************************)
(* inventory.py: the categories and products tables behind self.db.  A     *)
(* category is a row [id, name], a product a row [id, category, price,     *)
(* cost, quantity, min_stock]; categories and products hold the rows in    *)
(* the order of their insertion.  The store executes the statements the    *)
(* code issues, as they are written.                                       *)
(***************************************************************************)
CategoryNames == {"Juice", "Vape"}

\* what the user types at the four prompts for price, cost, quantity and
\* minimum stock
NumberEntries ==
  {<<"5", "5", "5", "5">>, <<"7", "5", "5", "5">>,
   <<"abc", "5", "5", "5">>, <<"5", "abc", "5", "5">>,
   <<"5", "5", "abc", "5">>, <<"5", "5", "5", "abc">>,
   <<"", "", "", "">>, <<"7", "", "", "">>}

\* float(text) and int(text) raise ValueError for a text that is no number
IsNumber(text) == text \in {"5", "7"}

NumberOf(text) == IF text = "5" THEN 5 ELSE 7

\* what the user types at a prompt for a number of a list of n lines
ChoiceInputs(n) ==
  {[number |-> FALSE]} \cup {[number |-> TRUE, value |-> v] : v \in 0..(n + 1)}

\* the id an INSERT gives to a new row of the table
NextId(table) ==
  IF table = <<>> THEN 1
  ELSE 1 + (CHOOSE m \in {table[i].id : i \in 1..Len(table)} :
              \A i \in 1..Len(table) : table[i].id <= m)

\* ORDER BY name
NameBefore(table) ==
  {p \in (1..Len(table)) \X (1..Len(table)) :
     StrRank(table[p[1]].name) < StrRank(table[p[2]].name)}

\* an add_product that inserts the row before it reads the numbers
insert_before_validation(table, category, entry) ==
  Append(table, [id |-> Len(table) + 1, category |-> category,
                 price |-> 0, cost |-> 0, quantity |-> 0, min_stock |-> 0])

\* add_product: the products table after the four numbers were read
insert_validated(table, category, entry) ==
  IF \A k \in 1..4 : IsNumber(entry[k])
  THEN Append(table, [id |-> Len(table) + 1, category |-> category,
                      price |-> NumberOf(entry[1]), cost |-> NumberOf(entry[2]),
                      quantity |-> NumberOf(entry[3]),
                      min_stock |-> NumberOf(entry[4])])
  ELSE table

\* InventoryManager.add_product
AddProduct ==
  /\ Len(products) < MaxProducts
  /\ op' = "add_product"
  /\ IF categories = <<>>
     THEN /\ out' = [status |-> "No categories found", statement |-> "none"]
          /\ UNCHANGED products
     ELSE \E by_name \in sort_values(categories, NameBefore(categories)) :
          \E cat_choice \in ChoiceInputs(Len(categories)) :
            IF ~cat_choice.number
            THEN /\ out' = [status |-> "ValueError", statement |-> "none"]
                 /\ UNCHANGED products
            ELSE IF cat_choice.value < 1 \/ cat_choice.value > Len(by_name)
            THEN /\ out' = [status |-> "Invalid category selection", statement |-> "none",
                            cat_choice |-> cat_choice.value]
                 /\ UNCHANGED products
            ELSE \E entry \in NumberEntries :
                   /\ products' = insert_validated(products,
                                                   by_name[cat_choice.value].name, entry)
                   /\ out' = IF \A k \in 1..4 : IsNumber(entry[k])
                             THEN [status |-> "added", statement |-> "INSERT",
                                   entry |-> entry]
                             ELSE [status |-> "must be numbers", statement |-> "none",
                                   entry |-> entry]
  /\ UNCHANGED <<reports, categories, menu>>

\* update_product: the row after the four numbers were read; an empty entry
\* keeps the current value
update_validated(product, entry) ==
  IF \A k \in 1..4 : entry[k] = "" \/ IsNumber(entry[k])
  THEN [product EXCEPT
          !.price = IF entry[1] = "" THEN @ ELSE NumberOf(entry[1]),
          !.cost = IF entry[2] = "" THEN @ ELSE NumberOf(entry[2]),
          !.quantity = IF entry[3] = "" THEN @ ELSE NumberOf(entry[3]),
          !.min_stock = IF entry[4] = "" THEN @ ELSE NumberOf(entry[4])]
  ELSE product

\* InventoryManager.update_product.  found is the rows the search text
\* matches by id, SKU or name, in the order of the table.
UpdateProduct ==
  /\ op' = "update_product"
  /\ \E ids \in SUBSET (1..Len(products)) :
       LET found == SelectSeq(products, LAMBDA row : row.id \in ids)
       IN IF found = <<>>
          THEN /\ out' = [status |-> "No products found", statement |-> "none"]
               /\ UNCHANGED products
          ELSE \E choice \in IF Len(found) > 1 THEN ChoiceInputs(Len(found))
                              ELSE {[number |-> TRUE, value |-> 1]} :
                 IF ~choice.number
                 THEN /\ out' = [status |-> "ValueError", statement |-> "none"]
                      /\ UNCHANGED products
                 ELSE IF choice.value < 1 \/ choice.value > Len(found)
                 THEN /\ out' = [status |-> "Invalid selection", statement |-> "none"]
                      /\ UNCHANGED products
                 ELSE \E entry \in NumberEntries :
                        LET product == found[choice.value]
                        IN /\ products' = [products EXCEPT ![product.id] =
                                             update_validated(product, entry)]
                           /\ out' = IF \A k \in 1..4 : entry[k] = "" \/ IsNumber(entry[k])
                                     THEN [status |-> "updated", statement |-> "UPDATE",
                                           id |-> product.id, entry |-> entry]
                                     ELSE [status |-> "must be numbers", statement |-> "none",
                                           id |-> product.id, entry |-> entry]
  /\ UNCHANGED <<reports, categories, menu>>

\* manage_categories, choice '2'
AddCategory ==
  /\ op' = "add_category"
  /\ \E name \in CategoryNames :
       LET existing == SelectSeq(categories, LAMBDA row : row.name = name)
       IN IF existing # <<>>
          THEN /\ out' = [status |-> "already exists", name |-> name]
               /\ UNCHANGED categories
          ELSE /\ NextId(categories) <= MaxCategories
               /\ categories' = Append(categories,
                                       [id |-> NextId(categories), name |-> name])
               /\ out' = [status |-> "added", name |-> name]
  /\ UNCHANGED <<reports, products, menu>>

\* UPDATE categories SET name = ? WHERE id = ?
update_category_name(table, category_id, name) ==
  [i \in 1..Len(table) |->
     IF table[i].id = category_id THEN [table[i] EXCEPT !.name = name]
     ELSE table[i]]

\* manage_categories, choice '3'; an empty entry keeps the current name
EditCategory ==
  /\ op' = "edit_category"
  /\ \E category_id \in 1..(MaxCategories + 1), entered \in {""} \cup CategoryNames :
       LET category == SelectSeq(categories, LAMBDA row : row.id = category_id)
       IN IF category = <<>>
          THEN /\ out' = [status |-> "not found", id |-> category_id]
               /\ UNCHANGED categories
          ELSE LET name == IF entered # "" THEN entered ELSE category[1].name
               IN /\ categories' = update_category_name(categories, category_id, name)
                  /\ out' = [status |-> "updated", id |-> category_id,
                             was |-> category[1].name, name |-> name]
  /\ UNCHANGED <<reports, products, menu>>

\* SELECT COUNT(*) FROM products p JOIN categories c ON p.category = c.name
\* WHERE c.id = ?
product_count(category_id) ==
  Cardinality({<<p, c>> \in (1..Len(products)) \X (1..Len(categories)) :
                 /\ products[p].category = categories[c].name
                 /\ categories[c].id = category_id})

\* manage_categories, choice '4'
DeleteCategory ==
  /\ op' = "delete_category"
  /\ \E category_id \in 1..(MaxCategories + 1), confirm \in {"y", "n"} :
       IF product_count(category_id) > 0
       THEN /\ out' = [status |-> "Cannot delete", id |-> category_id]
            /\ UNCHANGED categories
       ELSE IF confirm = "y"
       THEN /\ categories' = SelectSeq(categories, LAMBDA row : row.id # category_id)
            /\ out' = [status |-> "deleted", id |-> category_id]
       ELSE /\ out' = [status |-> "kept", id |-> category_id]
            /\ UNCHANGED categories
  /\ UNCHANGED <<reports, products, menu>>

\* the store as it is created: no category, no product
InitStore ==
  /\ reports = <<>>
  /\ products = <<>>
  /\ categories = <<>>
  /\ menu = "start"
  /\ op = "start"
  /\ out = <<>>

NextStore ==
  \/ AddProduct
  \/ UpdateProduct
  \/ AddCategory
  \/ EditCategory
  \/ DeleteCategory

SpecStore == InitStore /\ [][NextStore]_vars

(***************************************************************************)
(* Properties.                                                             *)
(***************************************************************************)
PeriodLess(p, q) ==
  \/ p.year < q.year
  \/ p.year = q.year /\ MonthIndex(p.month) < MonthIndex(q.month)

Chronological(s) == \A i, j \in 1..Len(s) : i < j => ~PeriodLess(s[j], s[i])

\* C1: every chronological sort (get_reports and get_month_year_key in the
\* dashboard, get_sort_key in the 'monthly' command) orders the periods by year
\* first and month index second: no period is placed after a later one, and
\* Dec of year Y comes before Jan of year Y+1.
C1_ChronologicalSort ==
  /\ (op = "monthly" /\ out.status = "ok") => Chronological(out.sorted_reports)
  /\ (op = "Monthly Analysis" /\ out.status = "ok") =>
       /\ Chronological(out.reports)
       /\ Chronological(out.months)
       /\ Chronological([i \in 1..Len(out.monthly_data) |-> out.monthly_data[i].Month])

C1_Witness ==
  /\ op = "monthly"
  /\ Len(reports) = 2
  /\ reports[1].month = "Jan" /\ reports[1].year = 2024
  /\ reports[2].month = "Dec" /\ reports[2].year = 2023
  /\ out.status = "ok"
  /\ out.sorted_reports = <<reports[2], reports[1]>>

\* the value a growth must have for the totals prev and curr of two adjacent
\* periods: (curr - prev) / prev * 100, or an undefined value ('N/A', NaN)
GrowthIs(g, prev, curr) ==
  IF prev > 0
  THEN g.kind = "num" /\ g.num * prev = (curr - prev) * 100 * g.den
  ELSE g.kind \in {"N/A", "nan"}

\* C2: for every adjacent pair of chronologically ordered period totals the
\* growth is (curr - prev) / prev * 100 when prev > 0 and is undefined, never
\* a number and never infinity, when prev is 0; for units and for sales, in
\* the 'monthly' command and on the Monthly Analysis page.
C2_GrowthUndefinedOnZeroBase ==
  /\ (op = "monthly" /\ out.status = "ok") =>
       \A k \in 1..Len(out.growth_data) :
         /\ GrowthIs(out.growth_data[k].units_growth,
                     out.totals[k].units, out.totals[k + 1].units)
         /\ GrowthIs(out.growth_data[k].sales_growth,
                     out.totals[k].sales, out.totals[k + 1].sales)
  /\ (op = "Monthly Analysis" /\ out.status = "ok") =>
       \A i \in 2..Len(out.monthly_data) :
         /\ GrowthIs(out.monthly_data[i].SalesGrowth,
                     out.monthly_data[i - 1].NetSales, out.monthly_data[i].NetSales)
         /\ GrowthIs(out.monthly_data[i].UnitsGrowth,
                     out.monthly_data[i - 1].Sold, out.monthly_data[i].Sold)

CategoryList == <<"Vape", "Subtotal", "total", "Total", "TOTAL">>

\* the rows of the reports as supplied, each with the period of its report
RECURSIVE RawRows(_)
RawRows(rs) ==
  IF rs = <<>> THEN <<>>
  ELSE [i \in 1..Len(Head(rs).data) |->
          [row |-> Head(rs).data[i], Month |-> MonthLabel(Head(rs))]]
       \o RawRows(Tail(rs))

Projected(df) ==
  [i \in 1..Len(df) |->
     [row |-> Row(df[i].Name, df[i].Category, df[i].Sold, df[i].NetSales),
      Month |-> df[i].Month]]

OfCategory(s, c) == SelectSeq(s, LAMBDA x : x.row.Category = c)

RowsOfCategory(data, c) == SelectSeq(data, LAMBDA r : r.Category = c)

\* C3: normalization removes a row if and only if its category is exactly
\* 'TOTAL': no TOTAL row is left, and the rows of every other category
\* ('Subtotal', 'total', 'Total' included) are all retained, unchanged and in
\* their order, in the combined data of the dashboard and in the totals of
\* the 'monthly' command.
C3_RemovesExactlyTotal ==
  /\ (op = "Monthly Analysis" /\ out.status = "ok") =>
       /\ \A k \in 1..Len(CategoryList) :
            OfCategory(Projected(out.combined_df), CategoryList[k]) =
              IF CategoryList[k] = "TOTAL" THEN <<>>
              ELSE OfCategory(RawRows(out.reports), CategoryList[k])
       /\ \A i \in 1..Len(out.combined_df) :
            out.combined_df[i].Category \in Range(CategoryList)
  /\ (op = "monthly" /\ out.status = "ok") =>
       \A i \in 1..Len(out.totals) :
         /\ out.totals[i].units =
              SumSeq([k \in 1..(Len(CategoryList) - 1) |->
                        ColSum(RowsOfCategory(out.sorted_reports[i].data,
                                              CategoryList[k]), "Sold")])
         /\ out.totals[i].sales =
              SumSeq([k \in 1..(Len(CategoryList) - 1) |->
                        ColSum(RowsOfCategory(out.sorted_reports[i].data,
                                              CategoryList[k]), "NetSales")])

C3_Witness ==
  /\ op = "Monthly Analysis" /\ out.status = "ok"
  /\ Len(reports) = 2
  /\ reports[1].data = <<Row("Mint", "Vape", 1, 50), Row("Kiwi", "Total", 1, 50),
                         Row("TOTAL", "TOTAL", 2, 100)>>
  /\ reports[2].data = <<Row("Mint", "Subtotal", 1, 50), Row("Kiwi", "total", 2, 100)>>
  /\ Len(out.combined_df) = 4
  /\ \E i \in 1..4 : out.combined_df[i].Category = "total"
  /\ \E i \in 1..4 : out.combined_df[i].Category = "Total"

HasRecords(report) ==
  \E k \in 1..Len(report.data) : report.data[k].Category # "TOTAL"

NoDuplicates(s) == \A i, j \in 1..Len(s) : i # j => s[i] # s[j]

\* C10 as stated: the list of distinct periods is exactly the set of the
\* periods of the supplied reports, each once, in chronological order.
C10_PeriodsOfAllInputs ==
  (op = "Monthly Analysis" /\ out.status = "ok") =>
    /\ Range(out.months) = {MonthLabel(reports[i]) : i \in 1..Len(reports)}
    /\ NoDuplicates(out.months)
    /\ Chronological(out.months)

\* C10, amended: after merging reports supplied in any order, the list of
\* distinct periods is exactly the set of the periods of the reports that have
\* at least one row other than TOTAL: no period that was not supplied, each
\* such period once, in chronological order.
C10_DistinctPeriods ==
  (op = "Monthly Analysis" /\ out.status = "ok") =>
    /\ Range(out.months) =
         {MonthLabel(reports[i]) : i \in {k \in 1..Len(reports) : HasRecords(reports[k])}}
    /\ NoDuplicates(out.months)
    /\ Chronological(out.months)

C10_Witness ==
  /\ op = "Monthly Analysis" /\ out.status = "ok"
  /\ Len(reports) = 3
  /\ MonthLabel(reports[1]) = [month |-> "Feb", year |-> 2024]
  /\ MonthLabel(reports[2]) = [month |-> "Dec", year |-> 2023]
  /\ MonthLabel(reports[3]) = [month |-> "Feb", year |-> 2024]
  /\ \A i \in 1..3 : HasRecords(reports[i])
  /\ out.months = <<[month |-> "Dec", year |-> 2023], [month |-> "Feb", year |-> 2024]>>

\* the tier of the stock classifier of the specification, for minStock > 0
Tier(quantity, minStock) ==
  IF quantity = 0 THEN "OUT OF STOCK"
  ELSE IF 4 * quantity <= minStock THEN "CRITICAL"
  ELSE IF 2 * quantity <= minStock THEN "LOW"
  ELSE IF quantity <= minStock THEN "WARNING"
  ELSE "OK"

Classified == op \in {"check_low_stock", "low_stock_report"}

HasStatus(i) ==
  /\ out.status = "ok"
  /\ i \in DOMAIN out.status_of

Undefined(x) == x.kind \in {"N/A", "nan"}

AvgPriceUndefinedAtZero(rows) ==
  \A i \in 1..Len(rows) : rows[i].Sold = 0 => Undefined(rows[i].AvgPrice)

\* C5: whenever an average price is computed as totalSales / totalUnits and
\* totalUnits == 0, the result is an explicit undefined value, never 0 and
\* never infinity: for the overview metric and for the average price of each
\* product and of each category.
C5_AvgPriceUndefinedAtZeroUnits ==
  /\ (op = "Dashboard Overview" /\ out.status = "ok") =>
       (out.metrics.total_units = 0 => Undefined(out.metrics.avg_price))
  /\ (op = "Product Analysis" /\ out.status = "ok") =>
       AvgPriceUndefinedAtZero(out.product_perf)
  /\ (op = "Category Analysis" /\ out.status = "ok") =>
       AvgPriceUndefinedAtZero(out.category_data)
  /\ (op = "Top Products: By Revenue" /\ out.status = "ok") =>
       AvgPriceUndefinedAtZero(out.product_data)

\* the rows, as supplied, of the reports whose period is selected
SubsetRows(selected) == SelectSeq(RawRows(reports), LAMBDA x : x.Month \in selected)

GroupSales(selected, c) ==
  SumSeq([i \in 1..Len(OfCategory(SubsetRows(selected), c)) |->
            OfCategory(SubsetRows(selected), c)[i].row.NetSales])

\* the grand total of the subset, the TOTAL lines left out
GrandTotal(selected) ==
  SumSeq([k \in 1..(Len(CategoryList) - 1) |-> GroupSales(selected, CategoryList[k])])

AllLabels == {MonthLabel(reports[i]) : i \in 1..Len(reports)}

RECURSIVE GCD(_, _)
GCD(a, b) == IF b = 0 THEN a ELSE GCD(b, a % b)

\* the sum of two quotients of numbers >= 0, in lowest terms
AddQ(x, y) ==
  LET n == x.num * y.den + y.num * x.den
      d == x.den * y.den
  IN Num(n \div GCD(n, d), d \div GCD(n, d))

RECURSIVE SumQ(_)
SumQ(s) == IF s = <<>> THEN Num(0, 1) ELSE AddQ(Head(s), SumQ(Tail(s)))

\* the quotients of pcts add up to 100
SumTo100(pcts) ==
  /\ \A i \in 1..Len(pcts) : pcts[i].kind = "num"
  /\ SumQ(pcts) = Num(100, 1)

\* each percentage is the group sum over the grand total of the subset
ShareOfSubset(pct, group, total) ==
  IF total > 0
  THEN pct.kind = "num" /\ pct.num * total = group * 100 * pct.den
  ELSE pct.kind = "nan"

\* C6 as stated: for any filtered subset aggregated by category, each
\* percentage is the group sum over the grand total of that subset, the group
\* sums add up to the grand total and the percentages sum to 100%.
C6_PercentagesSumTo100 ==
  /\ (op = "Category Analysis" /\ out.status = "ok") =>
       /\ \A i \in 1..Len(out.category_data) :
            out.category_data[i].NetSales =
              GroupSales(out.selected_months, out.category_data[i].Category)
       /\ SumSeq([i \in 1..Len(out.category_data) |-> out.category_data[i].NetSales])
            = GrandTotal(out.selected_months)
       /\ SumTo100([i \in 1..Len(out.category_data) |->
                      out.category_data[i].PercentOfSales])
  /\ (op = "category" /\ out.status = "ok") =>
       /\ \A i \in 1..Len(out.category_sales) :
            out.category_sales[i].NetSales =
              GroupSales(AllLabels, out.category_sales[i].Category)
       /\ SumSeq([i \in 1..Len(out.category_sales) |-> out.category_sales[i].NetSales])
            = GrandTotal(AllLabels)
       /\ SumTo100([i \in 1..Len(out.category_sales) |->
                      out.category_sales[i].PercentOfTotal])

\* C6, amended: for any filtered subset aggregated by category, each
\* category's percent of total is its group sum divided by the grand total of
\* that same subset (not of the unfiltered data) and the group sums add up
\* exactly to the grand total; when the grand total is not zero the
\* percentages sum to 100%, and when it is zero (no row, or no sales, in the
\* subset) every percentage is NaN.
C6_PercentOfFilteredTotal ==
  /\ (op = "Category Analysis" /\ out.status = "ok") =>
       /\ \A i \in 1..Len(out.category_data) :
            /\ out.category_data[i].NetSales =
                 GroupSales(out.selected_months, out.category_data[i].Category)
            /\ ShareOfSubset(out.category_data[i].PercentOfSales,
                             GroupSales(out.selected_months, out.category_data[i].Category),
                             GrandTotal(out.selected_months))
       /\ SumSeq([i \in 1..Len(out.category_data) |-> out.category_data[i].NetSales])
            = GrandTotal(out.selected_months)
       /\ GrandTotal(out.selected_months) > 0 =>
            SumTo100([i \in 1..Len(out.category_data) |->
                        out.category_data[i].PercentOfSales])
  /\ (op = "category" /\ out.status = "ok") =>
       /\ \A i \in 1..Len(out.category_sales) :
            /\ out.category_sales[i].NetSales =
                 GroupSales(AllLabels, out.category_sales[i].Category)
            /\ ShareOfSubset(out.category_sales[i].PercentOfTotal,
                             GroupSales(AllLabels, out.category_sales[i].Category),
                             GrandTotal(AllLabels))
       /\ SumSeq([i \in 1..Len(out.category_sales) |-> out.category_sales[i].NetSales])
            = GrandTotal(AllLabels)
       /\ GrandTotal(AllLabels) > 0 =>
            SumTo100([i \in 1..Len(out.category_sales) |->
                        out.category_sales[i].PercentOfTotal])

C6_Witness ==
  /\ op = "Category Analysis" /\ out.status = "ok"
  /\ Len(reports) = 2
  /\ \A i \in 1..2 : HasRecords(reports[i])
  /\ out.selected_months = {[month |-> "Jan", year |-> 2024]}
  /\ MonthLabel(reports[1]) = [month |-> "Dec", year |-> 2023]
  /\ Len(out.category_data) = 2
  /\ out.category_data[1].NetSales = 100
  /\ out.category_data[2].NetSales = 50

TopTabs ==
  {"Top Products: By Revenue", "Top Products: By Units Sold",
   "Top Products: By Profit Margin"}

Ranked == (op \in TopTabs \/ op = "top") /\ out.status = "ok"

\* the entries that are ranked: the product totals, and on the margin tab
\* those of them that meet the threshold
Candidates ==
  IF op = "top" THEN groupby_name(FilterTotal(reports[1].data))
  ELSE IF op = "Top Products: By Profit Margin"
  THEN SelectSeq(out.product_data, LAMBDA e : e.Sold >= out.min_units)
  ELSE out.product_data

Limit == IF op = "top" THEN TopN ELSE out.top_n

\* entry a has a strictly larger sort metric than entry b
LargerMetric(a, b) ==
  CASE op \in {"top", "Top Products: By Revenue"} -> a.NetSales > b.NetSales
    [] op = "Top Products: By Units Sold" -> a.Sold > b.Sold
    [] OTHER -> a.NetSales * b.Sold > b.NetSales * a.Sold

\* C7: in the ranking by average price with a minimum of units sold, every
\* entry whose units are below the threshold is absent from the result, even
\* when its average price is the highest of all, and every returned entry
\* meets the threshold.
C7_ThresholdExcludes ==
  (op = "Top Products: By Profit Margin" /\ out.status = "ok") =>
    /\ \A i \in 1..Len(out.product_data) :
         out.product_data[i].Sold < out.min_units =>
           out.product_data[i] \notin Range(out.top)
    /\ \A k \in 1..Len(out.top) :
         /\ out.top[k].Sold >= out.min_units
         /\ out.top[k] \in Range(out.product_data)

C7_Witness ==
  /\ op = "Top Products: By Profit Margin" /\ out.status = "ok"
  /\ out.min_units = 2
  /\ out.top # <<>>
  /\ \E i \in 1..Len(out.product_data) :
       /\ out.product_data[i].Sold = 1
       /\ out.product_data[i] \notin Range(out.top)
       /\ \A k \in 1..Len(out.top) :
            out.product_data[i].NetSales * out.top[k].Sold
              > out.top[k].NetSales * out.product_data[i].Sold

\* C8: a ranking returns at most n entries, in non-increasing order of the
\* chosen metric, and no entry left out of the result (and meeting the
\* threshold, if any) has a strictly larger metric than a returned entry.
C8_TopN ==
  Ranked =>
    /\ Len(out.top) <= Limit
    /\ \A k \in 1..Len(out.top) : out.top[k] \in Range(Candidates)
    /\ \A i, j \in 1..Len(out.top) : i < j => ~LargerMetric(out.top[j], out.top[i])
    /\ \A e \in Range(Candidates) \ Range(out.top) :
         \A k \in 1..Len(out.top) : ~LargerMetric(e, out.top[k])

C8_Witness ==
  /\ op = "Top Products: By Revenue" /\ out.status = "ok"
  /\ Len(out.product_data) = 6
  /\ out.top_n = 5
  /\ Len(out.top) = 5
  /\ out.top[1].NetSales = 30 /\ out.top[5].NetSales = 20
  /\ \E e \in Range(out.product_data) \ Range(out.top) : e.NetSales = 20

\* the position of an entry in the input of the ranking
InputIndex(e) == CHOOSE i \in 1..Len(Candidates) : Candidates[i] = e

SameMetric(a, b) == ~LargerMetric(a, b) /\ ~LargerMetric(b, a)

\* C9: in every ranking two entries with equal values of the sort metric
\* appear in the result in their relative order in the input, and of several
\* tied entries the ones cut off at position n are the last ones of the input.
C9_StableTieBreak ==
  Ranked =>
    /\ \A i, j \in 1..Len(out.top) :
         (i < j /\ SameMetric(out.top[i], out.top[j])) =>
           InputIndex(out.top[i]) < InputIndex(out.top[j])
    /\ \A e \in Range(Candidates) \ Range(out.top) :
         \A k \in 1..Len(out.top) :
           SameMetric(e, out.top[k]) => InputIndex(out.top[k]) < InputIndex(e)

\* how many times x occurs in s
Count(s, x) == Len(SelectSeq(s, LAMBDA y : y = x))

\* the rows as supplied, the TOTAL lines left out
SuppliedRows == SelectSeq(RawRows(reports), LAMBDA x : x.row.Category # "TOTAL")

SuppliedOf(label) == SelectSeq(SuppliedRows, LAMBDA x : x.Month = label)

SuppliedNamed(name) == SelectSeq(SuppliedRows, LAMBDA x : x.row.Name = name)

SumSold(rows) == SumSeq([i \in 1..Len(rows) |-> rows[i].row.Sold])

SumNetSales(rows) == SumSeq([i \in 1..Len(rows) |-> rows[i].row.NetSales])

\* C11: merging is plain concatenation: the merged data contains every
\* non-TOTAL row of every supplied report exactly as many times as it was
\* supplied; when two reports carry the same period the rows of both are
\* retained, so the totals of that period, and the totals of a product over
\* all reports, count both.
C11_MergeIsConcatenation ==
  /\ (op = "Monthly Analysis" /\ out.status = "ok") =>
       /\ Len(out.combined_df) = Len(SuppliedRows)
       /\ \A x \in Range(SuppliedRows) :
            Count(Projected(out.combined_df), x) = Count(SuppliedRows, x)
       /\ \A i \in 1..Len(out.monthly_data) :
            /\ out.monthly_data[i].NetSales = SumNetSales(SuppliedOf(out.monthly_data[i].Month))
            /\ out.monthly_data[i].Sold = SumSold(SuppliedOf(out.monthly_data[i].Month))
  /\ (op = "top" /\ out.status = "ok") =>
       /\ {out.top[i].Name : i \in 1..Len(out.top)}
            = {SuppliedRows[k].row.Name : k \in 1..Len(SuppliedRows)}
       /\ \A i \in 1..Len(out.top) :
            /\ out.top[i].NetSales = SumNetSales(SuppliedNamed(out.top[i].Name))
            /\ out.top[i].Sold = SumSold(SuppliedNamed(out.top[i].Name))

C11_Witness ==
  /\ op = "Monthly Analysis" /\ out.status = "ok"
  /\ Len(reports) = 2
  /\ MonthLabel(reports[1]) = MonthLabel(reports[2])
  /\ reports[1].data = reports[2].data
  /\ reports[1].data = <<Row("Mint", "Vape", 1, 50), Row("Kiwi", "Total", 1, 50),
                         Row("TOTAL", "TOTAL", 2, 100)>>
  /\ Len(out.combined_df) = 4
  /\ Len(out.monthly_data) = 1
  /\ out.monthly_data[1].NetSales = 200

\* the rows of df whose numbers are in S, in their order
PartOf(df, S) ==
  LET numbered == [i \in 1..Len(df) |-> [i |-> i, r |-> df[i]]]
      sel == SelectSeq(numbered, LAMBDA t : t.i \in S)
  IN [k \in 1..Len(sel) |-> sel[k].r]

Permuted(df, f) == [i \in 1..Len(df) |-> df[f[i]]]

RowOrders(n) == Arrangements(1..n, {})

\* the total of column col of the groups of name in a result of groupby_name
NameTotal(groups, name, col) ==
  ColSum(SelectSeq(groups, LAMBDA g : g.Name = name), col)

MonthTotal(groups, label, col) ==
  ColSum(SelectSeq(groups, LAMBDA g : g.Month = label), col)

Totals(groups) ==
  {[Month |-> groups[i].Month, Sold |-> groups[i].Sold, NetSales |-> groups[i].NetSales] :
     i \in 1..Len(groups)}

\* the records that 'top' aggregates
TopRecords == FilterTotal(concat_data(reports))

\* the records that the Monthly Analysis page aggregates
PageRecords == filtered_df(out.combined_df, out.selected_months)

FullMonths ==
  <<"January", "February", "March", "April", "May", "June",
    "July", "August", "September", "October", "November", "December">>

\* the characters in lower case
Lower(chars) ==
  [i \in 1..Len(chars) |->
     IF chars[i] >= 65 /\ chars[i] <= 90 THEN chars[i] + 32 ELSE chars[i]]

\* the month that a token names, in any letter case, by its 3-letter or its
\* full name; 0 when it names none
CanonIndex(tok) ==
  LET named == {i \in 1..12 :
                  Lower(TokenChars[tok]) \in {Lower(TokenChars[Months[i]]),
                                              Lower(TokenChars[FullMonths[i]])}}
  IN IF named = {} THEN 0 ELSE CHOOSE i \in named : TRUE

ValidToken(tok) == CanonIndex(tok) # 0

\* C13: for each of the 12 months, the 3-letter token and the full-name
\* token, in any letter case, are mapped to the month's index by every place
\* that converts a month token to a sort position: get_sort_key of 'monthly',
\* and get_reports, get_combined_data and get_month_year_key of the dashboard.
C13_TokenFormsSameIndex ==
  /\ (op = "monthly" /\ out.status = "ok") =>
       \A i \in 1..Len(reports) :
         ValidToken(reports[i].month) =>
           get_sort_key(reports[i])[2] = CanonIndex(reports[i].month)
  /\ (op = "Monthly Analysis" /\ out.status = "ok") =>
       /\ \A i \in 1..Len(reports) :
            ValidToken(reports[i].month) =>
              /\ get_reports_key(reports[i])[2] = CanonIndex(reports[i].month)
              /\ get_month_year_key(MonthLabel(reports[i])) =
                   IntStr(reports[i].year) \o Dash \o TwoDigits(CanonIndex(reports[i].month))
       /\ \A k \in 1..Len(out.combined_df) :
            ValidToken(out.combined_df[k].Month.month) =>
              out.combined_df[k].MonthIndex = CanonIndex(out.combined_df[k].Month.month)

\* C14: a month token that matches none of the 12 canonical month names is
\* rejected: its period is never given a sort position (such as month index
\* 0 or '00') and never appears in a sorted list of periods, in the monthly
\* totals or in a growth computation.
C14_InvalidTokenRejected ==
  /\ (op = "monthly" /\ out.status = "ok") =>
       /\ \A i \in 1..Len(out.sorted_reports) : ValidToken(out.sorted_reports[i].month)
       /\ \A i \in 1..Len(out.totals) : ValidToken(out.totals[i].month.month)
       /\ \A k \in 1..Len(out.growth_data) :
            /\ ValidToken(out.growth_data[k].from.month)
            /\ ValidToken(out.growth_data[k].to.month)
  /\ (op = "Monthly Analysis" /\ out.status = "ok") =>
       /\ \A i \in 1..Len(out.reports) : ValidToken(out.reports[i].month)
       /\ \A i \in 1..Len(out.months) : ValidToken(out.months[i].month)
       /\ \A k \in 1..Len(out.combined_df) : ValidToken(out.combined_df[k].Month.month)
       /\ \A i \in 1..Len(out.monthly_data) : ValidToken(out.monthly_data[i].Month.month)

\* the operation ended with an error, not with a result
Failed == out.status \notin {"ok", "No products are below minimum stock levels"}

\* C15: the classification of an item with minStock <= 0 fails: no severity
\* tier is returned for such an item, and the failure is the same in the
\* low-stock check of the inventory and in the low-stock report.
C15_InvalidThresholdFails ==
  (op \in {"check_low_stock", "low_stock_report"}) =>
    \A i \in low_stock_ids(products) : products[i].min_stock <= 0 => Failed

\* C16: for k >= 1 chronologically ordered period totals the growth
\* computation yields exactly k-1 growth points, the i-th one relating the
\* i-th period to the (i+1)-th (adjacent periods only, no point for the
\* first period): the growth rows of 'monthly' and the rows of the growth
\* chart of the Monthly Analysis page.
C16_OneGrowthPointPerAdjacentPair ==
  /\ (op = "monthly" /\ out.status = "ok") =>
       /\ Len(out.growth_data) = Len(out.totals) - 1
       /\ \A k \in 1..Len(out.growth_data) :
            /\ out.growth_data[k].from = out.totals[k].month
            /\ out.growth_data[k].to = out.totals[k + 1].month
  /\ (op = "Monthly Analysis" /\ out.status = "ok" /\ Len(out.monthly_data) >= 1) =>
       /\ Len(out.growth_df) = Len(out.monthly_data) - 1
       /\ \A i \in 1..Len(out.growth_df) :
            /\ out.growth_df[i].Month = out.monthly_data[i + 1].Month
            /\ out.growth_df[i].SalesGrowth = out.monthly_data[i + 1].SalesGrowth

DistinctPeriods ==
  \A i, j \in 1..Len(reports) : i # j => MonthLabel(reports[i]) # MonthLabel(reports[j])

\* the possible monthly_data of the Monthly Analysis page for the reports rs
\* and the selection sel
PageGrowth(rs, sel) ==
  LET grouped == groupby_month(filtered_df(Loaded(rs).combined_df, sel))
  IN {with_growth(md) : md \in sort_values(grouped, SortKeyBefore(grouped))}

\* C17: growth is computed on the chronological order of the periods, not on
\* the order in which the reports were supplied nor on the string order of
\* the 'Month Year' labels: for reports with pairwise distinct periods every
\* growth point relates a period to the next later one, and every permutation
\* of the supplied reports yields the same sequence of growth points.
C17_GrowthOnChronologicalOrder ==
  /\ (op = "monthly" /\ out.status = "ok" /\ DistinctPeriods) =>
       /\ \A k \in 1..Len(out.growth_data) :
            PeriodLess(out.growth_data[k].from, out.growth_data[k].to)
       /\ \A f \in RowOrders(Len(reports)) :
            MonthlyResult(Permuted(reports, f)).growth_data = out.growth_data
  /\ (op = "Monthly Analysis" /\ out.status = "ok" /\ DistinctPeriods) =>
       /\ \A i \in 2..Len(out.monthly_data) :
            PeriodLess(out.monthly_data[i - 1].Month, out.monthly_data[i].Month)
       /\ \A f \in RowOrders(Len(reports)) :
            PageGrowth(Permuted(reports, f), out.selected_months) = {out.monthly_data}

\* supplied as Feb 2024, Dec 2023, Jan 2024; as strings the labels are in the
\* order "Dec 2023", "Feb 2024", "Jan 2024"
C17_Witness ==
  /\ op = "Monthly Analysis" /\ out.status = "ok"
  /\ Len(reports) = 3
  /\ MonthLabel(reports[1]) = [month |-> "Feb", year |-> 2024]
  /\ MonthLabel(reports[2]) = [month |-> "Dec", year |-> 2023]
  /\ MonthLabel(reports[3]) = [month |-> "Jan", year |-> 2024]
  /\ Len(out.monthly_data) = 3
  /\ out.monthly_data[1].Month = [month |-> "Dec", year |-> 2023]
  /\ out.monthly_data[2].Month = [month |-> "Jan", year |-> 2024]
  /\ out.monthly_data[3].Month = [month |-> "Feb", year |-> 2024]
  /\ out.monthly_data[1].NetSales = 100
  /\ out.monthly_data[2].NetSales = 150
  /\ out.monthly_data[3].SalesGrowth = Num(-5000, 150)

\* the quotient x of a division by divisor is undefined when the divisor is 0
UndefinedAtZero(x, divisor) == divisor = 0 => Undefined(x)

\* C18: no aggregation, percentage, average or growth computation raises an
\* error on well-formed input: whenever a divisor is zero (zero total units,
\* zero grand total of sales, zero prior-period value) the computation
\* completes and the affected result is the explicit undefined value.
C18_ZeroDivisorGivesUndefined ==
  (op # "start" /\ reports # <<>>) =>
    /\ out.status \in {"ok", "Not enough valid reports"}
    /\ op = "monthly" /\ out.status = "ok" =>
         \A k \in 1..Len(out.growth_data) :
           /\ UndefinedAtZero(out.growth_data[k].units_growth, out.totals[k].units)
           /\ UndefinedAtZero(out.growth_data[k].sales_growth, out.totals[k].sales)
    /\ op = "category" =>
         \A i \in 1..Len(out.category_sales) :
           UndefinedAtZero(out.category_sales[i].PercentOfTotal, GrandTotal(AllLabels))
    /\ op = "Dashboard Overview" =>
         UndefinedAtZero(out.metrics.avg_price, out.metrics.total_units)
    /\ op = "Monthly Analysis" =>
         \A i \in 2..Len(out.monthly_data) :
           /\ UndefinedAtZero(out.monthly_data[i].SalesGrowth, out.monthly_data[i - 1].NetSales)
           /\ UndefinedAtZero(out.monthly_data[i].UnitsGrowth, out.monthly_data[i - 1].Sold)
    /\ op = "Product Analysis" =>
         \A i \in 1..Len(out.product_perf) :
           UndefinedAtZero(out.product_perf[i].AvgPrice, out.product_perf[i].Sold)
    /\ op = "Category Analysis" =>
         \A i \in 1..Len(out.category_data) :
           /\ UndefinedAtZero(out.category_data[i].AvgPrice, out.category_data[i].Sold)
           /\ UndefinedAtZero(out.category_data[i].PercentOfSales,
                              GrandTotal(out.selected_months))
    /\ op = "Top Products: By Revenue" =>
         \A i \in 1..Len(out.product_data) :
           UndefinedAtZero(out.product_data[i].AvgPrice, out.product_data[i].Sold)

\* C19: aggregating by period yields exactly one aggregate per distinct
\* period (month, year): when two supplied reports carry the same period the
\* monthly totals contain a single entry for that period, and no growth
\* point relates a period to itself.
C19_OneAggregatePerPeriod ==
  /\ (op = "monthly" /\ out.status = "ok") =>
       /\ NoDuplicates([i \in 1..Len(out.totals) |-> out.totals[i].month])
       /\ {out.totals[i].month : i \in 1..Len(out.totals)} = AllLabels
       /\ \A k \in 1..Len(out.growth_data) :
            out.growth_data[k].from # out.growth_data[k].to
  /\ (op = "Monthly Analysis" /\ out.status = "ok") =>
       /\ NoDuplicates([i \in 1..Len(out.monthly_data) |-> out.monthly_data[i].Month])
       /\ {out.monthly_data[i].Month : i \in 1..Len(out.monthly_data)}
            = out.selected_months

\* the supplied rows other than TOTAL lines of the selected periods
SelectedRows(sel) == SelectSeq(SuppliedRows, LAMBDA x : x.Month \in sel)

Named(rows, name) == SelectSeq(rows, LAMBDA x : x.row.Name = name)

InCategory(rows, c) == SelectSeq(rows, LAMBDA x : x.row.Category = c)

\* the rows that the Product Analysis page keeps for its two filters
Matching(rows, selected_category, search_term) ==
  SelectSeq(rows, LAMBDA x :
    /\ selected_category = "All Categories" \/ x.row.Category = selected_category
    /\ NameContains(x.row.Name, search_term))

NoTotalGroup(groups) == \A i \in 1..Len(groups) : groups[i].Category # "TOTAL"

\* the sums of a group are the sums of the rows rows
SumsOf(group, rows) ==
  group.NetSales = SumNetSales(rows) /\ group.Sold = SumSold(rows)

\* C20: on every path that computes a sum, a ranking or a percentage over
\* sales rows (the 'top', 'category' and 'monthly' commands and every
\* dashboard page) no row whose category is 'TOTAL' contributes to the
\* result: every total is the sum of the rows other than TOTAL lines only, and
\* no group is made of TOTAL lines.
C20_TotalRowsNeverAggregated ==
  /\ (op = "top" /\ out.status = "ok") =>
       /\ \A i \in 1..Len(out.top) :
            /\ SumsOf(out.top[i], Named(SuppliedRows, out.top[i].Name))
            /\ Named(SuppliedRows, out.top[i].Name) # <<>>
  /\ (op = "category" /\ out.status = "ok") =>
       /\ NoTotalGroup(out.category_sales)
       /\ \A i \in 1..Len(out.category_sales) :
            /\ SumsOf(out.category_sales[i],
                      InCategory(SuppliedRows, out.category_sales[i].Category))
            /\ ShareOfSubset(out.category_sales[i].PercentOfTotal,
                             out.category_sales[i].NetSales, SumNetSales(SuppliedRows))
  /\ (op = "monthly" /\ out.status = "ok") =>
       \A i \in 1..Len(out.totals) :
         LET kept == SelectSeq(out.sorted_reports[i].data,
                               LAMBDA row : row.Category # "TOTAL")
         IN /\ out.totals[i].units = ColSum(kept, "Sold")
            /\ out.totals[i].sales = ColSum(kept, "NetSales")
  /\ (op = "Dashboard Overview" /\ out.status = "ok") =>
       /\ out.metrics.total_sales = SumNetSales(SelectedRows(out.selected_months))
       /\ out.metrics.total_units = SumSold(SelectedRows(out.selected_months))
  /\ (op = "Monthly Analysis" /\ out.status = "ok") =>
       \A i \in 1..Len(out.monthly_data) :
         SumsOf(out.monthly_data[i], SelectedRows({out.monthly_data[i].Month}))
  /\ (op = "Product Analysis" /\ out.status = "ok") =>
       /\ NoTotalGroup(out.product_perf)
       /\ \A i \in 1..Len(out.product_perf) :
            SumsOf(out.product_perf[i],
                   Named(Matching(SelectedRows(out.selected_months),
                                  out.selected_category, out.search_term),
                         out.product_perf[i].Name))
  /\ (op = "Category Analysis" /\ out.status = "ok") =>
       /\ NoTotalGroup(out.category_data)
       /\ \A i \in 1..Len(out.category_data) :
            /\ SumsOf(out.category_data[i],
                      InCategory(SelectedRows(out.selected_months),
                                 out.category_data[i].Category))
            /\ ShareOfSubset(out.category_data[i].PercentOfSales,
                             out.category_data[i].NetSales,
                             SumNetSales(SelectedRows(out.selected_months)))
  /\ (op = "Top Products: By Revenue" /\ out.status = "ok") =>
       /\ NoTotalGroup(out.product_data)
       /\ \A i \in 1..Len(out.product_data) :
            SumsOf(out.product_data[i],
                   InCategory(Named(SelectedRows(out.selected_months),
                                    out.product_data[i].Name),
                              out.product_data[i].Category))

\* a report with a TOTAL line of 2 units and 100 of sales over two rows of 1
\* unit and 50 each
C20_Witness ==
  /\ op = "Dashboard Overview" /\ out.status = "ok"
  /\ Len(reports) = 1
  /\ reports[1].data = <<Row("Mint", "Vape", 1, 50), Row("Kiwi", "Total", 1, 50),
                         Row("TOTAL", "TOTAL", 2, 100)>>
  /\ out.selected_months = {MonthLabel(reports[1])}
  /\ out.metrics.total_sales = 100
  /\ out.metrics.total_units = 2

\* C21: a growth value whose prior-period base is zero is displayed as 'N/A'
\* and never as a numeric percentage (not '0%', not an infinite percentage):
\* in the output of 'monthly', in the Monthly Performance table and in the
\* growth chart of the dashboard.
C21_ZeroBaseShownAsNA ==
  /\ (op = "monthly" /\ out.status = "ok") =>
       \A k \in 1..Len(out.growth_data) :
         /\ out.totals[k].units = 0 => out.growth_data[k].units_growth = NA
         /\ out.totals[k].sales = 0 => out.growth_data[k].sales_growth = NA
  /\ (op = "Monthly Analysis" /\ out.status = "ok") =>
       \A i \in 2..Len(out.monthly_data) :
         out.monthly_data[i - 1].NetSales = 0 =>
           /\ out.display_df[i].SalesGrowth.text = "N/A"
           /\ \A g \in 1..Len(out.growth_df) :
                out.growth_df[g].Month # out.monthly_data[i].Month

\* C23: no transformation mutates its input: after combining, filtering,
\* tagging with period columns or searching, the data table of every parsed
\* report is unchanged (same rows, same columns, TOTAL rows still present).
C23_InputsNotMutated == [][reports' = reports]_vars

\* a search tagged the matching rows of a report with its label, and the
\* report still has its other rows, its TOTAL row too, without the tag
C23_Witness ==
  /\ op = "search" /\ out.status = "ok" /\ out.search_term = "mint"
  /\ \E i \in 1..Len(out.matches) : out.matches[i].Report = MonthLabel(reports[1])
  /\ Len(reports[1].data) = 3
  /\ \E k \in 1..3 : reports[1].data[k].Category = "TOTAL"
  /\ \A k \in 1..3 : DOMAIN reports[1].data[k] = {"Name", "Category", "Sold", "NetSales"}

\* the files of the run that parse_report can parse
Parsed == SelectSeq(reports, LAMBDA r : r # None)

ParsedRows == SelectSeq(RawRows(Parsed), LAMBDA x : x.row.Category # "TOTAL")

\* s and t have the same elements, each as many times
SameElements(s, t) ==
  /\ Len(s) = Len(t)
  /\ \A x \in Range(s) \cup Range(t) : Count(s, x) = Count(t, x)

C24_CategoryNamesUnique ==
  \A i, j \in 1..Len(categories) :
    categories[i].name = categories[j].name => i = j

\* C25: every product's category names an existing category.
C25_ProductCategoryExists ==
  \A p \in 1..Len(products) :
    \E c \in 1..Len(categories) : categories[c].name = products[p].category

\* the store is as it was and the handler issued no statement
NothingWritten == products' = products /\ out'.statement = "none"

\* C26: add_product and update_product leave the product store unchanged when
\* the entered price, cost, quantity or minimum stock is not a number, and
\* add_product also when no category exists or the category selection is out
\* of range: no insert or update statement is issued.
C26_InvalidEntryWritesNothing ==
  [][/\ (op' = "add_product" /\ categories = <<>>) => NothingWritten
     /\ (op' = "add_product" /\ "cat_choice" \in DOMAIN out') =>
          ((out'.cat_choice < 1 \/ out'.cat_choice > Len(categories)) => NothingWritten)
     /\ (op' = "add_product" /\ "entry" \in DOMAIN out') =>
          ((\E k \in 1..4 : out'.entry[k] \notin {"5", "7"}) => NothingWritten)
     /\ (op' = "update_product" /\ "entry" \in DOMAIN out') =>
          ((\E k \in 1..4 : out'.entry[k] \notin {"", "5", "7"}) => NothingWritten)]_vars

\* add_product read a quantity that is no number while the store held a product
C26_Witness ==
  /\ op = "add_product"
  /\ "entry" \in DOMAIN out /\ out.entry = <<"5", "5", "abc", "5">>
  /\ out.statement = "none"
  /\ Len(products) = 1 /\ Len(categories) = 2

\* C27: for every item with quantity >= 0 and min_stock > 0 the status of
\* the inventory low-stock check (quantity / min_stock against 0.25 and 0.5)
\* equals the status of the CSV export of the low-stock report (quantity
\* against min_stock * 0.25 and min_stock * 0.5).
C27_CheckAndExportAgree ==
  Classified =>
    \A i \in 1..Len(products) :
      (products[i].quantity >= 0 /\ products[i].min_stock > 0) =>
        /\ stock_status(products[i]) = csv_status(products[i])
        /\ HasStatus(i) =>
             /\ out.status_of[i] = stock_status(products[i])
             /\ out.status_of[i] = csv_status(products[i])

\* the export gave an item at half of its minimum the status LOW
C27_Witness ==
  /\ op = "low_stock_report" /\ out.status = "ok" /\ out.exported
  /\ products[1].quantity = 50 /\ products[1].min_stock = 100
  /\ out.status_of[1] = "LOW"
  /\ stock_status(products[1]) = "LOW"

\* the rows the query of the report returns
BelowMinimum == {i \in 1..Len(products) : products[i].quantity <= products[i].min_stock}

\* what restocking row i up to its minimum costs
Shortfall(i) ==
  IF products[i].quantity < products[i].min_stock
  THEN (products[i].min_stock - products[i].quantity) * products[i].cost
  ELSE 0

RECURSIVE ShortfallUpTo(_)
ShortfallUpTo(n) == IF n = 0 THEN 0 ELSE ShortfallUpTo(n - 1) + Shortfall(n)

Chose(name, choice) ==
  menu = name /\ op' = "menu" /\ out'.menu = name /\ out'.choice = choice

MenuNames ==
  {"main", "monthly_reports", "product_analysis", "category_analysis",
   "sales_rankings", "trend_analysis", "export"}

\* C29: in interactive mode the program terminates only by choosing '0' in
\* the main menu: '0' in a submenu returns to the main menu, an unrecognized
\* choice leaves the user in the same menu, no submenu choice ends the
\* program; with a command-line argument main returns without ever entering
\* the interactive menu.
C29_OnlyMainMenuZeroExits ==
  [][/\ (menu # "exited" /\ menu' = "exited") => Chose("main", "0")
     /\ \A name \in MenuNames \ {"main"}, choice \in Choices :
          Chose(name, choice) =>
            /\ choice = "0" => menu' = "main"
            /\ choice # "0" => menu' = name
            /\ menu' # "exited"
     /\ \A name \in MenuNames, choice \in {"7", "x", ""} :
          Chose(name, choice) => menu' = name
     /\ menu \in MenuNames => op' = "menu"
     /\ (menu = "start" /\ op' # "menu") => menu' = "returned"
     /\ menu = "returned" => menu' = "returned"
     /\ menu = "exited" => menu' = "exited"]_vars

\* the user came back to the main menu with '0' from the export menu
C29_Witness ==
  /\ menu = "main" /\ op = "menu"
  /\ out.status = "ok" /\ out.menu = "export" /\ out.choice = "0"

\* a is a day before b
DateLess(a, b) ==
  \/ a.year < b.year
  \/ a.year = b.year /\ a.month < b.month
  \/ a.year = b.year /\ a.month = b.month /\ a.day < b.day

BuiltInPeriods ==
  {"Today", "Yesterday", "This Week", "This Month", "Last Month",
   "Last 3 Months", "Last 6 Months", "This Year"}

\* the days from start to the day before end are the days of one calendar month
WholeMonth(start, end, year, month) ==
  /\ start = Date(year, month, 1)
  /\ MinusOneDay(end) = Date(year, month, DaysInMonth(year, month))

\* C30: for every built-in time period of the sales summary and product
\* performance reports and every current date the half-open range has
\* start_date < end_date; 'Last Month' is exactly the previous calendar
\* month, December of the previous year when the current month is January.
C30_PeriodRanges ==
  (/\ op \in {"sales_summary_report", "product_performance_report"}
   /\ out.status = "ok"
   /\ out.period_name \in BuiltInPeriods) =>
    /\ DateLess(out.start_date, out.end_date)
    /\ out.period_name = "Last Month" =>
         IF out.today.month = 1
         THEN WholeMonth(out.start_date, out.end_date, out.today.year - 1, 12)
         ELSE WholeMonth(out.start_date, out.end_date,
                         out.today.year, out.today.month - 1)

\* 'Last Month' asked on a day of January
C30_Witness ==
  /\ op = "product_performance_report" /\ out.status = "ok"
  /\ out.period_name = "Last Month"
  /\ out.today = Date(2024, 1, 31)
  /\ out.start_date = Date(2023, 12, 1)
  /\ out.end_date = Date(2024, 1, 1)

====
